---- MODULE Spec2Model ----
(***************************************************************************)
(* InfraSync: the resource-iteration protocol of the Google adapters       *)
(* (storageIterator, the two cloudSQLIterator variants) and the import     *)
(* orchestrator (Client.Import / Client.ImportService over runner.Import   *)
(* and runner.CleanupImportBlocks).                                        *)
(***************************************************************************)
EXTENDS Integers, Sequences, FiniteSets, TLC

\* ---------------------------------------------------------------- bounds
MaxBuckets == 2      \* buckets the upstream bucket listing may return
MaxPages == 2        \* pages the upstream instance listing may return
MaxPageLen == 2      \* instances on one page of the instance listing
MaxInstances == 2    \* instances `gcloud sql instances list` may return
MaxDeps == 1         \* roles of a bucket policy / databases of an instance
MaxLive == 2         \* live resources given to the drift detector
MaxEntries == 2      \* elements of the resources array of a snapshot
MaxServices == 2     \* services of a sync run
MaxNameLen == 3      \* characters of a native name
MaxTopics == 1       \* topics of the project

\* ---------------------------------------------------------------- errors
\* A Go error is its chain of wrapped layers, outermost first; nil is <<>>.
\* A layer is the format string's text and the values formatted into it.
NoErr == <<>>

Layer(msg, args) == [msg |-> msg, args |-> args]

\* fmt.Errorf("<msg>: %w", args..., cause)
Errorf(msg, args, cause) == <<Layer(msg, args)>> \o cause

\* the errors an upstream API call may fail with
UpstreamErrs == {<<Layer("E1", <<>>)>>, <<Layer("E2", <<>>)>>}

\* the errors a listing of dependents may fail with
DepErrs == {<<Layer("E1", <<>>)>>}

ErrClosed == <<Layer("iterator is closed", <<>>)>>

\* ------------------------------------------------------------- resources
ResourceTypeStorageBucket == "google_storage_bucket"
ResourceTypeStorageBucketIAMBinding == "google_storage_bucket_iam_binding"
ResourceTypeSQLInstance == "google_sql_database_instance"
ResourceTypeSQLDatabase == "google_sql_database"
ResourceTypeSQLUser == "google_sql_user"

\* A Resource; a native name is a tuple of numbers, a composite name
\* ("%s_%s") is the concatenation of its parts, an ID is the format string
\* with the values formatted into it.
Resource(type, service, name, id, dependents) ==
    [Type |-> type, Service |-> service, Name |-> name, ID |-> id,
     Dependents |-> dependents]

ID(fmt, args) == [fmt |-> fmt, args |-> args]

\* ------------------------------------------- upstream: Cloud SQL instances
Settings(isNil, mwNil, day, hour, track, icNil, qsl) ==
    [isNil |-> isNil, mwNil |-> mwNil, Day |-> day, Hour |-> hour,
     UpdateTrack |-> track, icNil |-> icNil, QueryStringLength |-> qsl]

Instance(settings, state, version, cur, max) ==
    [Settings |-> settings, State |-> state, DatabaseVersion |-> version,
     CurrentDiskSize |-> cur, MaxDiskSize |-> max]

GoodSettings == Settings(FALSE, FALSE, 1, 2, "stable", FALSE, 1024)
NilSettings == Settings(TRUE, TRUE, 0, 0, "", TRUE, 0)
\* Settings without a MaintenanceWindow, and with the window "any" (day and
\* hour 0) on the stable track
NoWindowSettings == Settings(FALSE, TRUE, 0, 0, "", FALSE, 1024)
AnyWindowSettings == Settings(FALSE, FALSE, 0, 0, "stable", FALSE, 1024)

\* the instance shapes the iterator runs are drawn from
IterShapes ==
    { Instance(GoodSettings, "RUNNABLE", "POSTGRES_14", 10, 100),
      Instance(GoodSettings, "RUNNABLE", "SQLSERVER_2019", 10, 100),
      Instance(GoodSettings, "RUNNABLE", "MYSQL_8_0", 10, 100),
      Instance(GoodSettings, "STOPPED", "MYSQL_8_0", 10, 100),
      Instance(NilSettings, "RUNNABLE", "POSTGRES_14", 10, 100),
      Instance(NoWindowSettings, "STOPPED", "POSTGRES_14", 10, 100),
      Instance(AnyWindowSettings, "STOPPED", "POSTGRES_14", 10, 100) }

PagedShapes ==
    { Instance(GoodSettings, "RUNNABLE", "POSTGRES_14", 10, 100),
      Instance(GoodSettings, "STOPPED", "MYSQL_8_0", 10, 100),
      Instance(NilSettings, "RUNNABLE", "POSTGRES_14", 10, 100),
      Instance(NoWindowSettings, "STOPPED", "POSTGRES_14", 10, 100),
      Instance(AnyWindowSettings, "STOPPED", "POSTGRES_14", 10, 100) }

\* strings.HasPrefix(version, "POSTGRES") / (version, "MYSQL")
HasPrefixPostgres(v) == v \in {"POSTGRES_14"}
HasPrefixMysql(v) == v \in {"MYSQL_8_0"}

\* strings.HasPrefix(userName, "mysql.") || HasPrefix(userName, "cloudsqlsuperuser")
IsSystemUser(u) == u \in {-1, -2}

\* the answers of Users.List the runs are drawn from: user names
\* (negative: a system account such as mysql.sys)
UserLists == {<<>>, <<-1, 1>>}

SeqsUpTo(S, n) == UNION {[1..k -> S] : k \in 0..n}

\* ------------------------------------------------------------ the disk
\* a directory is a function from the names in it to the files' contents
NoFiles == [x \in {} |-> x]

Put(dir, name, content) ==
    [x \in DOMAIN dir \cup {name} |-> IF x = name THEN content ELSE dir[x]]

Del(dir, name) == [x \in DOMAIN dir \ {name} |-> dir[x]]

\* ------------------------------------------------------------- the state
VARIABLES
    kind,           \* the ResourceIterator implementation in use
    resourceQueue,  \* it.resourceQueue
    err,            \* it.err
    isClosed,       \* it.isClosed
    pageToken,      \* paged cloudSQLIterator: it.pageToken (0 is "")
    finished,       \* paged cloudSQLIterator: it.finished
    instances,      \* gcloud cloudSQLIterator: it.instances
    instanceIndex,  \* gcloud cloudSQLIterator: it.instanceIndex
    bucketIter,     \* storageIterator: the cursor of it.bucketIter
    lastOp,         \* the last call made on the iterator
    ret,            \* what that call returned: [res, err], res <<>> for nil
    upCalls,        \* the upstream API calls that call made
    closeCalls,     \* Close calls made on the iterator so far: 0, 1, 2 (or more)
    answer,         \* what the upstream answered that call: the page listed,
                    \* the error of the policy fetch
    services,       \* Client.Import: c.Config.GoogleServices(provider)
    svcIndex,       \* Client.Import: the service the loop is at
    pc,             \* where the import run is: import, loop, closing, returned
    serviceErr,     \* the error ImportService is returning with
    importErr,      \* the error Client.Import returned
    importBlocks,   \* disk: <workingDir>/<name>.tf, name -> the id it binds
    tfFiles,        \* disk: resources/<provider>/<project>/<service>/<name>.tf
    step,           \* what the last iteration of ImportService's loop did
    calls,          \* how often the run called each collaborator
    yielded,        \* this ImportService call: resources yielded, flattened
    saved,          \* this ImportService call: resources given to SaveImportBlock
    imported,       \* this ImportService call: resources given to runner.Import
    live,           \* DetectResourceDrift: the live resources given
    stateData,      \* DetectResourceDrift: the snapshot given
    drift,          \* DetectResourceDrift: how the call ended
    options,        \* Service.Run: s.options
    syncPc,         \* where the sync run is: start, loop, returned, panicked
    syncIndex,      \* Service.Run: the service the loop is at
    result,         \* Service.Run: *result
    runErr,         \* the error Service.Run returned
    getStateErr,    \* the error stateBackend.GetState returned
    logs,           \* what the loop of Service.Run logged, one entry a service
    syncCalls,      \* how often the sync run called each collaborator
    env,            \* the environment variables the sync run set
    native,         \* naming: the live resources an adapter names
    names,          \* naming: the Name it gave each of them
    topicListing,   \* pubSub.Import: what the Pub/Sub API will answer
    pubsubOut       \* pubSub.Import: what the call returned

itVars == <<kind, resourceQueue, err, isClosed, pageToken, finished,
            instances, instanceIndex, bucketIter>>
obsVars == <<lastOp, ret, upCalls, closeCalls, answer>>
diskVars == <<importBlocks, tfFiles>>
runVars == <<services, svcIndex, pc, serviceErr, importErr, step, calls,
             yielded, saved, imported>>
driftVars == <<live, stateData, drift>>
syncVars == <<options, syncPc, syncIndex, result, runErr, getStateErr, logs,
              syncCalls, env>>
nameVars == <<native, names>>
pubsubVars == <<topicListing, pubsubOut>>

\* `if it.isClosed` and `if it.err != nil`, the first two checks of every Next
iteratorClosedNever == FALSE

iteratorClosed == isClosed

hasFailedNever == FALSE

hasFailed == err # NoErr

\* the call heard nothing from the upstream
NoAnswer == [items |-> <<>>, policyErr |-> NoErr]

Return(res, e, n) ==
    /\ lastOp' = "Next"
    /\ UNCHANGED closeCalls
    /\ ret' = [res |-> res, err |-> e]
    /\ upCalls' = n

\* ------------------------------------------------------ storageIterator
\* what it.bucketIter.Next() may answer: a bucket, iterator.Done or an error;
\* Done is final (google.golang.org/api/iterator)
BucketAnswers ==
    IF bucketIter.done \/ isClosed \/ err # NoErr
    THEN {[kind |-> "done", err |-> NoErr]}
    ELSE {[kind |-> "done", err |-> NoErr]}
         \cup {[kind |-> "err", err |-> e] : e \in UpstreamErrs}
         \cup (IF bucketIter.returned < MaxBuckets
               THEN {[kind |-> "bucket", err |-> NoErr]} ELSE {})

\* what bucket.IAM().Policy(ctx) may answer: an error, or for each role of
\* the policy the number of its members
PolicyAnswers ==
    IF bucketIter.done \/ isClosed \/ err # NoErr
    THEN {[err |-> NoErr, roles |-> <<>>]}
    ELSE {[err |-> e, roles |-> <<>>] : e \in UpstreamErrs}
         \cup {[err |-> NoErr, roles |-> r] : r \in SeqsUpTo(0..1, MaxDeps)}

RECURSIVE bucketBindings(_, _, _)
bucketBindings(bucketName, roles, j) ==
    IF j > Len(roles) THEN <<>>
    ELSE (IF roles[j] > 0
          THEN <<Resource(ResourceTypeStorageBucketIAMBinding, "storage",
                          bucketName \o <<j>>, ID("%s %s", bucketName \o <<j>>),
                          <<>>)>>
          ELSE <<>>) \o bucketBindings(bucketName, roles, j + 1)

getBucketIAMBindings(bucketName, policy) ==
    IF policy.err # NoErr
    THEN [res |-> <<>>,
          err |-> Errorf("error getting IAM policy for bucket %s",
                         <<bucketName>>, policy.err)]
    ELSE [res |-> bucketBindings(bucketName, policy.roles, 1), err |-> NoErr]

\* a Next that gives up the bucket when its bindings cannot be fetched
bucketWithBindingsFails(bucketName, iamBindings) ==
    IF iamBindings.err # NoErr
    THEN [res |-> <<>>, err |-> iamBindings.err]
    ELSE [res |-> <<Resource(ResourceTypeStorageBucket, "storage", bucketName,
                             ID("%s", bucketName), iamBindings.res)>>,
          err |-> NoErr]

\* the end of Next: the bucket with its bindings as Dependents, or, when
\* they could not be fetched (which is logged), with none
bucketWithBindings(bucketName, iamBindings) ==
    [res |-> <<Resource(ResourceTypeStorageBucket, "storage", bucketName,
                        ID("%s", bucketName),
                        IF iamBindings.err # NoErr THEN <<>>
                        ELSE iamBindings.res)>>,
     err |-> NoErr]

StorageNext(ans, policy) ==
    /\ kind = "storage"
    /\ UNCHANGED <<kind, isClosed, pageToken, finished, instances, instanceIndex>>
    /\ answer' = [NoAnswer EXCEPT !.policyErr =
                    IF ~iteratorClosed /\ ~hasFailed /\ Len(resourceQueue) = 0
                       /\ ans.kind = "bucket"
                    THEN policy.err ELSE NoErr]
    /\ IF iteratorClosed
       THEN Return(<<>>, ErrClosed, 0)
            /\ UNCHANGED <<resourceQueue, err, bucketIter>>
       ELSE IF hasFailed
       THEN Return(<<>>, err, 0)
            /\ UNCHANGED <<resourceQueue, err, bucketIter>>
       ELSE IF Len(resourceQueue) > 0
       THEN Return(<<Head(resourceQueue)>>, NoErr, 0)
            /\ resourceQueue' = Tail(resourceQueue)
            /\ UNCHANGED <<err, bucketIter>>
       ELSE IF ans.kind = "done"
       THEN Return(<<>>, NoErr, 1)
            /\ bucketIter' = [bucketIter EXCEPT !.done = TRUE]
            /\ UNCHANGED <<resourceQueue, err>>
       ELSE IF ans.kind = "err"
       THEN Return(<<>>, Errorf("error iterating buckets", <<>>, ans.err), 1)
            /\ err' = Errorf("error iterating buckets", <<>>, ans.err)
            /\ UNCHANGED <<resourceQueue, bucketIter>>
       ELSE LET bucketName == <<bucketIter.returned + 1>>
                iamBindings == getBucketIAMBindings(bucketName, policy)
                out == bucketWithBindings(bucketName, iamBindings)
            IN  /\ Return(out.res, out.err, 2)
                /\ bucketIter' = [bucketIter EXCEPT !.returned = @ + 1]
                /\ err' = (IF out.err # NoErr THEN out.err ELSE err)
                /\ UNCHANGED resourceQueue

\* ------------------------------------------- cloudSQL: the dependents
\* what Databases.List may answer: an error, or n databases (none or the most)
DbAnswers ==
    {[err |-> e, n |-> 0] : e \in DepErrs}
    \cup {[err |-> NoErr, n |-> n] : n \in {0, MaxDeps}}

\* what Users.List may answer: an error or a list of user names
UserAnswers ==
    {[err |-> e, users |-> <<>>] : e \in DepErrs}
    \cup {[err |-> NoErr, users |-> l] : l \in UserLists}

NoDeps == [dbs |-> [err |-> NoErr, n |-> 0],
           users |-> [err |-> NoErr, users |-> <<>>]]

\* the answers the dependents' listings may give for one instance; they are
\* asked only of a running instance, and the users only after the databases
DepAnswers(instance) ==
    IF instance.State # "RUNNABLE" \/ instance.Settings.isNil THEN {NoDeps}
    ELSE {[dbs |-> d, users |-> NoDeps.users] : d \in {a \in DbAnswers : a.err # NoErr}}
         \cup {[dbs |-> d, users |-> u] :
                 d \in {a \in DbAnswers : a.err = NoErr}, u \in UserAnswers}

getDatabases(instanceName, ans) ==
    IF ans.err # NoErr
    THEN [res |-> <<>>,
          err |-> Errorf("error listing databases for instance %s",
                         <<instanceName>>, ans.err)]
    ELSE [res |-> [j \in 1..ans.n |->
                     Resource(ResourceTypeSQLDatabase, "cloudsql",
                              instanceName \o <<j>>,
                              ID("projects/%s/instances/%s/databases/%s",
                                 instanceName \o <<j>>),
                              <<>>)],
          err |-> NoErr]

InstanceResource(instanceName, dependents) ==
    Resource(ResourceTypeSQLInstance, "cloudsql", instanceName,
             ID("projects/%s/instances/%s", instanceName), dependents)

\* --------------------------------------- cloudSQLIterator, paged variant
isImportablePaged(instance) ==
    LET st == instance.Settings
    IN  IF st.isNil THEN FALSE
        ELSE IF st.mwNil THEN FALSE
        ELSE IF st.Day = 0 /\ st.Hour = 0 /\ st.UpdateTrack # "stable" THEN FALSE
        ELSE IF st.icNil THEN FALSE
        ELSE IF st.QueryStringLength = 0 THEN FALSE
        ELSE TRUE

isRunningPaged(instance) ==
    instance.State = "RUNNABLE" /\ instance.CurrentDiskSize > 0
    /\ instance.MaxDiskSize > 0

RECURSIVE usersPaged(_, _, _)
usersPaged(instanceName, users, j) ==
    IF j > Len(users) THEN <<>>
    ELSE (IF IsSystemUser(users[j]) THEN <<>>
          ELSE <<Resource(ResourceTypeSQLUser, "cloudsql",
                          instanceName \o <<users[j]>>,
                          ID("%s:%s:%s", instanceName \o <<users[j]>>), <<>>)>>)
         \o usersPaged(instanceName, users, j + 1)

getUsersPaged(instanceName, ans) ==
    IF ans.err # NoErr
    THEN [res |-> <<>>,
          err |-> Errorf("error listing users for instance %s",
                         <<instanceName>>, ans.err)]
    ELSE [res |-> usersPaged(instanceName, ans.users, 1), err |-> NoErr]

\* the loop over resp.Items: the queue it leaves, the error it stopped on and
\* the upstream calls it made
RECURSIVE pagedProcess(_, _, _, _, _)
pagedProcess(items, page, i, queue, n) ==
    IF i > Len(items) THEN [queue |-> queue, err |-> NoErr, calls |-> n]
    ELSE
      LET instance == items[i].inst
          instanceName == <<page, i>>
          databases == getDatabases(instanceName, items[i].deps.dbs)
          users == getUsersPaged(instanceName, items[i].deps.users)
      IN  IF ~isImportablePaged(instance)
          THEN pagedProcess(items, page, i + 1, queue, n)
          ELSE IF ~isRunningPaged(instance)
          THEN pagedProcess(items, page, i + 1,
                            Append(queue, InstanceResource(instanceName, <<>>)),
                            n)
          ELSE IF databases.err # NoErr
          THEN [queue |-> queue,
                err |-> Errorf("error getting databases for instance %s",
                               <<instanceName>>, databases.err),
                calls |-> n + 1]
          ELSE IF users.err # NoErr
          THEN [queue |-> queue,
                err |-> Errorf("error getting users for instance %s",
                               <<instanceName>>, users.err),
                calls |-> n + 2]
          ELSE pagedProcess(items, page, i + 1,
                            Append(queue,
                                   InstanceResource(instanceName,
                                                    databases.res \o users.res)),
                            n + 2)

\* one listed instance with the answers its dependents' listings will give
Items(shapes) ==
    UNION {{[inst |-> s, deps |-> d] : d \in DepAnswers(s)} : s \in shapes}

\* what Instances.List(...).PageToken(token).Do() may answer: an error, or a
\* page of instances and the token of the following page (0: none)
PageErr(e) == [err |-> e, items |-> <<>>, NextPageToken |-> 0]

Page(items, token) == [err |-> NoErr, items |-> items, NextPageToken |-> token]

NextTokens ==
    LET page == IF pageToken = 0 THEN 1 ELSE pageToken
    IN  {0} \cup (IF page < MaxPages THEN {page + 1} ELSE {})

\* whether this Next call reaches the upstream listing
pagedFetches ==
    ~isClosed /\ err = NoErr /\ Len(resourceQueue) = 0 /\ ~finished

PagedNext(resp) ==
    /\ kind = "paged"
    /\ UNCHANGED <<kind, isClosed, instances, instanceIndex, bucketIter>>
    /\ answer' = [NoAnswer EXCEPT !.items =
                    IF ~iteratorClosed /\ ~hasFailed /\ Len(resourceQueue) = 0
                       /\ ~finished /\ resp.err = NoErr
                    THEN resp.items ELSE <<>>]
    /\ IF iteratorClosed
       THEN Return(<<>>, ErrClosed, 0)
            /\ UNCHANGED <<resourceQueue, err, pageToken, finished>>
       ELSE IF hasFailed
       THEN Return(<<>>, err, 0)
            /\ UNCHANGED <<resourceQueue, err, pageToken, finished>>
       ELSE IF Len(resourceQueue) > 0
       THEN Return(<<Head(resourceQueue)>>, NoErr, 0)
            /\ resourceQueue' = Tail(resourceQueue)
            /\ UNCHANGED <<err, pageToken, finished>>
       ELSE IF finished
       THEN Return(<<>>, NoErr, 0)
            /\ UNCHANGED <<resourceQueue, err, pageToken, finished>>
       ELSE IF resp.err # NoErr
       THEN Return(<<>>, Errorf("error listing SQL instances", <<>>, resp.err), 1)
            /\ err' = Errorf("error listing SQL instances", <<>>, resp.err)
            /\ UNCHANGED <<resourceQueue, pageToken, finished>>
       ELSE LET page == IF pageToken = 0 THEN 1 ELSE pageToken
                done == pagedProcess(resp.items, page, 1, resourceQueue, 1)
            IN  /\ pageToken' = resp.NextPageToken
                /\ finished' = (IF resp.NextPageToken = 0 THEN TRUE ELSE finished)
                /\ IF done.err # NoErr
                   THEN /\ Return(<<>>, done.err, done.calls)
                        /\ err' = done.err
                        /\ resourceQueue' = done.queue
                   ELSE IF Len(done.queue) = 0
                   THEN /\ Return(<<>>, NoErr, done.calls)
                        /\ UNCHANGED <<resourceQueue, err>>
                   ELSE /\ Return(<<Head(done.queue)>>, NoErr, done.calls)
                        /\ resourceQueue' = Tail(done.queue)
                        /\ UNCHANGED err

\* -------------------------------------- cloudSQLIterator, gcloud variant
\* an isImportable without the check of Settings
isImportableGcloudNoNilCheck(instance) ==
    LET st == instance.Settings
    IN  IF ~st.mwNil /\ st.Day = 0 /\ st.Hour = 0 THEN FALSE
        ELSE IF ~st.icNil /\ st.QueryStringLength = 0 THEN FALSE
        ELSE TRUE

\* isImportable returns an error for an instance to skip; TRUE is nil
isImportableGcloud(instance) ==
    LET st == instance.Settings
    IN  IF st.isNil THEN FALSE
        ELSE IF ~st.mwNil /\ st.Day = 0 /\ st.Hour = 0 THEN FALSE
        ELSE IF ~st.icNil /\ st.QueryStringLength = 0 THEN FALSE
        ELSE TRUE

isRunningGcloud(instance) == instance.State = "RUNNABLE"

\* the id of a user: 3 parts for Postgres, 4 parts (with the host, 0) for MySQL
RECURSIVE usersGcloud(_, _, _, _)
usersGcloud(instance, instanceName, users, j) ==
    IF j > Len(users) THEN [res |-> <<>>, err |-> NoErr]
    ELSE IF IsSystemUser(users[j])
    THEN usersGcloud(instance, instanceName, users, j + 1)
    ELSE IF ~HasPrefixPostgres(instance.DatabaseVersion)
            /\ ~HasPrefixMysql(instance.DatabaseVersion)
    THEN [res |-> <<>>,
          err |-> <<Layer("unsupported database version %s", <<>>)>>]
    ELSE LET id == IF HasPrefixPostgres(instance.DatabaseVersion)
                   THEN ID("%s/%s/%s", instanceName \o <<users[j]>>)
                   ELSE ID("%s/%s/%s/%s", instanceName \o <<0, users[j]>>)
             rest == usersGcloud(instance, instanceName, users, j + 1)
         IN  IF rest.err # NoErr THEN rest
             ELSE [res |-> <<Resource(ResourceTypeSQLUser, "cloudsql",
                                      instanceName \o <<users[j]>>, id, <<>>)>>
                           \o rest.res,
                   err |-> NoErr]

getUsersGcloud(instance, instanceName, ans) ==
    IF ans.err # NoErr
    THEN [res |-> <<>>,
          err |-> Errorf("error listing users for instance %s",
                         <<instanceName>>, ans.err)]
    ELSE usersGcloud(instance, instanceName, ans.users, 1)

\* the instance the recursive it.Next(ctx) calls stop at: the first
\* importable one from index i on, or Len + 1
RECURSIVE gcloudSkip(_, _)
gcloudSkip(insts, i) ==
    IF i > Len(insts) THEN i
    ELSE IF isImportableGcloud(insts[i]) THEN i
    ELSE gcloudSkip(insts, i + 1)

GcloudNext(deps) ==
    /\ kind = "gcloud"
    /\ UNCHANGED <<kind, isClosed, instances, pageToken, finished, bucketIter>>
    /\ answer' = NoAnswer
    /\ IF iteratorClosed
       THEN Return(<<>>, ErrClosed, 0)
            /\ UNCHANGED <<resourceQueue, err, instanceIndex>>
       ELSE IF hasFailed
       THEN Return(<<>>, err, 0)
            /\ UNCHANGED <<resourceQueue, err, instanceIndex>>
       ELSE IF Len(resourceQueue) > 0
       THEN Return(<<Head(resourceQueue)>>, NoErr, 0)
            /\ resourceQueue' = Tail(resourceQueue)
            /\ UNCHANGED <<err, instanceIndex>>
       ELSE LET at == gcloudSkip(instances, instanceIndex + 1)
            IN  IF at > Len(instances)
                THEN /\ Return(<<>>, NoErr, 0)
                     /\ instanceIndex' = Len(instances)
                     /\ UNCHANGED <<resourceQueue, err>>
                ELSE
                  LET instance == instances[at]
                      instanceName == <<at>>
                      databases == getDatabases(instanceName, deps.dbs)
                      users == getUsersGcloud(instance, instanceName, deps.users)
                  IN  /\ instanceIndex' = at
                      /\ UNCHANGED resourceQueue
                      /\ IF ~isRunningGcloud(instance)
                         THEN /\ Return(<<InstanceResource(instanceName, <<>>)>>,
                                        NoErr, 0)
                              /\ UNCHANGED err
                         ELSE IF databases.err # NoErr
                         THEN /\ err' = Errorf("error getting databases for instance %s",
                                               <<instanceName>>, databases.err)
                              /\ Return(<<>>, err', 1)
                         ELSE IF users.err # NoErr
                         THEN /\ err' = Errorf("error getting users for instance %s",
                                               <<instanceName>>, users.err)
                              /\ Return(<<>>, err', 2)
                         ELSE /\ Return(<<InstanceResource(
                                            instanceName,
                                            databases.res \o users.res)>>,
                                        NoErr, 2)
                              /\ UNCHANGED err

\* the answers the dependents' listings may give to the next GcloudNext call
GcloudDepAnswers ==
    LET at == gcloudSkip(instances, instanceIndex + 1)
    IN  IF kind = "gcloud" /\ at <= Len(instances) /\ ~isClosed /\ err = NoErr
        THEN DepAnswers(instances[at]) ELSE {NoDeps}

\* a Close that flips the flag instead of setting it
CloseToggles ==
    /\ isClosed' = ~isClosed
    /\ lastOp' = "Close"
    /\ answer' = NoAnswer
    /\ ret' = [res |-> <<>>, err |-> NoErr]
    /\ upCalls' = 0
    /\ closeCalls' = (IF closeCalls < 2 THEN closeCalls + 1 ELSE closeCalls)
    /\ UNCHANGED <<kind, resourceQueue, err, pageToken, finished, instances,
                   instanceIndex, bucketIter>>

\* Close is the same code in the three iterators
Close ==
    /\ isClosed' = (IF isClosed THEN isClosed ELSE TRUE)
    /\ lastOp' = "Close"
    /\ answer' = NoAnswer
    /\ ret' = [res |-> <<>>, err |-> NoErr]
    /\ upCalls' = 0
    /\ closeCalls' = (IF closeCalls < 2 THEN closeCalls + 1 ELSE closeCalls)
    /\ UNCHANGED <<kind, resourceQueue, err, pageToken, finished, instances,
                   instanceIndex, bucketIter>>

Exhausted == [res |-> <<>>, err |-> NoErr]

\* ------------------------------------------------ drift: the Go values
ResourceTypePubSubTopicIAM == "pubsub_topic_iam"
ResourceTypePubSubSubscriptionIAM == "pubsub_subscription_iam"

\* the value under Attributes["members"], with its dynamic type: absent,
\* []string (what an adapter stores), []interface{} (what encoding/json
\* decodes an array to) or another type; an element of []interface{} is a
\* string or is not
Missing == [tag |-> "missing", elems |-> <<>>]
Other == [tag |-> "other", elems |-> <<>>]
Strings(l) == [tag |-> "strings", elems |-> l]
Anys(l) == [tag |-> "anys", elems |-> l]
Str(s) == [str |-> TRUE, v |-> s]
NotStr == [str |-> FALSE, v |-> ""]

\* a live google.Resource as the detector reads it
LiveResource(type, name, id, members) ==
    [Type |-> type, Name |-> name, ID |-> id, Attributes |-> [members |-> members]]

\* an element of the snapshot's resources array: whether it is an object,
\* its id when that is a string, whether type, name and provider are
\* strings, and attributes when that is an object
Entry(isMap, id, type, name, provider, attributes) ==
    [isMap |-> isMap, id |-> id, type |-> type, name |-> name,
     provider |-> provider, attributes |-> attributes]

\* the snapshot bytes: whether they are JSON, and the value under "resources"
StateData(json, tag, entries) ==
    [json |-> json, resources |-> [tag |-> tag, entries |-> entries]]

\* []byte("{}")
EmptyObject == StateData(TRUE, "missing", <<>>)

\* drift.Change: the values are of type any, a bool or a list of strings
BoolVal(b) == [kind |-> "bool", b |-> b, l |-> <<>>]
ListVal(l) == [kind |-> "list", b |-> FALSE, l |-> l]
Change(old, new) == [OldValue |-> old, NewValue |-> new]

DriftResult(resource, hasDrift, changes) ==
    [ResourceType |-> resource.Type, ResourceName |-> resource.Name,
     ResourceID |-> resource.ID, HasDrift |-> hasDrift, Changes |-> changes]

\* ----------------------------------------------------- drift: Detector
\* reflect.DeepEqual of two []string
DeepEqual(a, b) == a = b

\* the types DetectDrift compares the members of
Compared(type) == type = ResourceTypePubSubTopicIAM

\* Detector.DetectDrift: a result, an error, or the panic of binding.(string)
DetectDrift(resource, state) ==
    LET resourceBindings == resource.Attributes.members
        stateBindings == state.Attributes.members
        stateBindingsStr == [i \in 1..Len(stateBindings.elems) |->
                                stateBindings.elems[i].v]
    IN  IF ~Compared(resource.Type)
        THEN [outcome |-> "ok", err |-> NoErr,
              result |-> DriftResult(resource, FALSE, NoFiles)]
        ELSE IF resourceBindings.tag # "strings"
        THEN [outcome |-> "error",
              err |-> <<Layer("invalid resource bindings format", <<>>)>>,
              result |-> DriftResult(resource, FALSE, NoFiles)]
        ELSE IF stateBindings.tag # "anys"
        THEN [outcome |-> "error",
              err |-> <<Layer("invalid state bindings format", <<>>)>>,
              result |-> DriftResult(resource, FALSE, NoFiles)]
        ELSE IF \E i \in 1..Len(stateBindings.elems) : ~stateBindings.elems[i].str
        THEN [outcome |-> "panic", err |-> NoErr,
              result |-> DriftResult(resource, FALSE, NoFiles)]
        ELSE IF ~DeepEqual(resourceBindings.elems, stateBindingsStr)
        THEN [outcome |-> "ok", err |-> NoErr,
              result |-> DriftResult(resource, TRUE,
                           [k \in {"members"} |->
                              Change(ListVal(stateBindingsStr),
                                     ListVal(resourceBindings.elems))])]
        ELSE [outcome |-> "ok", err |-> NoErr,
              result |-> DriftResult(resource, FALSE, NoFiles)]

\* the loop over resourcesState: the map it builds, by id, or the panic of an
\* unchecked type assertion (type, name, provider, attributes, in this order)
RECURSIVE stateResourcesByID(_, _, _)
stateResourcesByID(entries, i, byID) ==
    IF i > Len(entries) THEN [panic |-> FALSE, byID |-> byID]
    ELSE LET resMap == entries[i]
         IN  IF ~resMap.isMap
             THEN stateResourcesByID(entries, i + 1, byID)
             ELSE IF ~resMap.id.ok
             THEN stateResourcesByID(entries, i + 1, byID)
             ELSE IF ~resMap.type \/ ~resMap.name \/ ~resMap.provider
                     \/ ~resMap.attributes.ok
             THEN [panic |-> TRUE, byID |-> byID]
             ELSE stateResourcesByID(
                    entries, i + 1,
                    Put(byID, resMap.id.v,
                        [ID |-> resMap.id.v,
                         Attributes |-> [members |-> resMap.attributes.members]]))

\* a loop that reports a snapshot entry no live resource stands for
compareReportsGone(resources, byID, i, results) ==
    LET gone == {id \in DOMAIN byID :
                   \A j \in 1..Len(resources) : resources[j].ID # id}
    IN  [panic |-> FALSE,
         results |-> IF gone = {} THEN <<>>
                     ELSE <<DriftResult(
                              LiveResource("", <<>>, CHOOSE id \in gone : TRUE,
                                           Missing),
                              TRUE,
                              [k \in {"existence"} |->
                                 Change(BoolVal(TRUE), BoolVal(FALSE))])>>]

\* the loop over the live resources: the results it appends, or the panic
\* of DetectDrift
RECURSIVE compare(_, _, _, _)
compare(resources, byID, i, results) ==
    IF i > Len(resources) THEN [panic |-> FALSE, results |-> results]
    ELSE LET resource == resources[i]
             found == DetectDrift(resource, byID[resource.ID])
         IN  IF resource.ID \notin DOMAIN byID
             THEN compare(resources, byID, i + 1,
                    Append(results,
                           DriftResult(resource, TRUE,
                             [k \in {"existence"} |->
                                Change(BoolVal(FALSE), BoolVal(TRUE))])))
             ELSE IF found.outcome = "panic"
             THEN [panic |-> TRUE, results |-> results]
             ELSE IF found.outcome = "error"
             THEN compare(resources, byID, i + 1, results)
             ELSE IF found.result.HasDrift
             THEN compare(resources, byID, i + 1, Append(results, found.result))
             ELSE compare(resources, byID, i + 1, results)

\* Detector.DetectResourceDrift: how the call ends (returned, error, panic),
\* the results and the error it returns
DetectResourceDrift(resources, data) ==
    LET parsed == stateResourcesByID(data.resources.entries, 1, NoFiles)
        compared == compare(resources, parsed.byID, 1, <<>>)
    IN  IF ~data.json
        THEN [outcome |-> "error", results |-> <<>>,
              err |-> Errorf("failed to parse state data", <<>>,
                             <<Layer("invalid character", <<>>)>>)]
        ELSE IF data.resources.tag # "list"
        THEN [outcome |-> "error", results |-> <<>>,
              err |-> <<Layer("invalid state format: resources not found", <<>>)>>]
        ELSE IF parsed.panic \/ compared.panic
        THEN [outcome |-> "panic", results |-> <<>>, err |-> NoErr]
        ELSE [outcome |-> "returned", results |-> compared.results, err |-> NoErr]

\* no call made yet
NoDrift == [outcome |-> "none", results |-> <<>>, err |-> NoErr]

\* ------------------------------------------------- tfimport: the runner
ErrAlreadyExists == <<Layer("resource_already_exists", <<>>)>>

\* what the operating system or the terraform process fails with
OsErr == <<Layer("EIO", <<>>)>>
ExitErr == <<Layer("exit status 1", <<>>)>>

\* errors.Is(e, target): target is e or an error e wraps
Is(e, target) ==
    \E i \in 1..Len(e) : SubSeq(e, i, Len(e)) = target

\* the path separates the services of the one provider and project
resourceFilePath(resource) == [Service |-> resource.Service, Name |-> resource.Name]

\* the contents of a definition file: written by hand or generated for an id
Manual == [src |-> "manual", id |-> ID("", <<>>)]
Generated(id) == [src |-> "generated", id |-> id]

\* an Import that runs the tool without looking for the file first
ImportOverwrites(resource, tool) ==
    IF tool = "fail"
    THEN [err |-> Errorf("failed to import resource", <<>>, ExitErr),
          files |-> tfFiles, plan |-> TRUE]
    ELSE [err |-> NoErr,
          files |-> Put(tfFiles, resourceFilePath(resource), Generated(resource.ID)),
          plan |-> TRUE]

\* generator.Import: the error it returns, the definition files it leaves and
\* whether it ran `terraform plan`; tool is how that run would end. Under
\* Client.Import the service directory exists, so MkdirAll is not reached.
Import(resource, tool) ==
    IF resourceFilePath(resource) \in DOMAIN tfFiles
    THEN [err |-> ErrAlreadyExists, files |-> tfFiles, plan |-> FALSE]
    ELSE IF tool = "fail"
    THEN [err |-> Errorf("failed to import resource", <<>>, ExitErr),
          files |-> tfFiles, plan |-> TRUE]
    ELSE [err |-> NoErr,
          files |-> Put(tfFiles, resourceFilePath(resource), Generated(resource.ID)),
          plan |-> TRUE]

\* a cleanup that reports success and removes nothing
CleanupKeeps(resource, blocks, io) ==
    [err |-> NoErr, blocks |-> blocks]

\* generator.CleanupImportBlocks: os.Remove of <workingDir>/<name>.tf fails on
\* a missing file or on an i/o error
CleanupImportBlocks(resource, blocks, io) ==
    IF resource.Name \notin DOMAIN blocks \/ io = "fail"
    THEN [err |-> Errorf("failed to remove import block file", <<>>, OsErr),
          blocks |-> blocks]
    ELSE [err |-> NoErr, blocks |-> Del(blocks, resource.Name)]

\* importer.SaveImportBlock: writes the import block of the resource, keyed by
\* its name, where CleanupImportBlocks removes it
SaveImportBlock(resource, blocks, io) ==
    IF io = "fail"
    THEN [err |-> OsErr, blocks |-> blocks]
    ELSE [err |-> NoErr, blocks |-> Put(blocks, resource.Name, resource.ID)]

\* -------------------------------------------------- the import run: state
NoStep == [next |-> "none", resource |-> <<>>, save |-> "none",
           import |-> "none", plan |-> FALSE, cleanup |-> "none"]

NoCalls == [init |-> 0, adapters |-> 0, adapterCloses |-> 0, next |-> 0,
            save |-> 0, import |-> 0, plan |-> 0, cleanup |-> 0]

\* the resources (name and id) of a sequence and of their Dependents trees
Key(resource) == [Name |-> resource.Name, ID |-> resource.ID]

RECURSIVE Flatten(_)
Flatten(rs) ==
    IF Len(rs) = 0 THEN {}
    ELSE {Key(Head(rs))} \cup Flatten(Head(rs).Dependents) \cup Flatten(Tail(rs))

\* errors.Is(err, tfimport.ErrAlreadyExists) in ImportService
isAlreadyExistsNever(e) == FALSE

isAlreadyExists(e) == Is(e, ErrAlreadyExists)

\* ------------------------------------------------ the import run: inputs
\* the configured services of the project; no service is checked or
\* deduplicated on the way from the configuration
ServiceLists ==
    { <<"storage">>, <<"cloudsql">>, <<"bigquery">>,
      <<"storage", "cloudsql">>, <<"cloudsql", "storage">>,
      <<"storage", "storage">>, <<"bigquery", "storage">> }

\* the instance shapes `gcloud sql instances list` answers an import run with
ImportShapes ==
    { Instance(GoodSettings, "RUNNABLE", "POSTGRES_14", 10, 100),
      Instance(NilSettings, "RUNNABLE", "POSTGRES_14", 10, 100) }

\* the definition files on disk before the run: none, or one written by hand
InitialFiles ==
    { NoFiles,
      Put(NoFiles, [Service |-> "storage", Name |-> <<1>>], Manual),
      Put(NoFiles, [Service |-> "cloudsql", Name |-> <<1>>], Manual) }

\* the import blocks on disk before the run: none, or one an aborted run left
InitialBlocks == { NoFiles, Put(NoFiles, <<2>>, ID("%s", <<2>>)) }

\* how the i/o of SaveImportBlock and of CleanupImportBlocks and the run of
\* `terraform plan` end
Outcomes == [save : {"ok", "fail"}, tool : {"ok", "fail"}, cleanup : {"ok", "fail"}]

AllOk == [save |-> "ok", tool |-> "ok", cleanup |-> "ok"]

\* what may go wrong in ImportService before the loop
StartFailures(service) ==
    {"none", "mkdir", "runner", "init"}
    \cup (IF service \in {"storage", "cloudsql"} THEN {"client"} ELSE {})
    \cup (IF service = "cloudsql" THEN {"list"} ELSE {})

\* no iterator has been created
IdleIterator ==
    /\ kind = "none"
    /\ resourceQueue = <<>>
    /\ err = NoErr
    /\ isClosed = FALSE
    /\ pageToken = 0
    /\ finished = FALSE
    /\ instances = <<>>
    /\ instanceIndex = 0
    /\ bucketIter = [returned |-> 0, done |-> FALSE]
    /\ lastOp = "none"
    /\ ret = Exhausted
    /\ upCalls = 0
    /\ closeCalls = 0
    /\ answer = NoAnswer

\* no import run is under way
IdleImport ==
    /\ services = <<>>
    /\ svcIndex = 0
    /\ pc = "returned"
    /\ serviceErr = NoErr
    /\ importErr = NoErr
    /\ importBlocks = NoFiles
    /\ tfFiles = NoFiles
    /\ step = NoStep
    /\ calls = NoCalls
    /\ yielded = {}
    /\ saved = {}
    /\ imported = {}

\* no drift detection is under way
IdleDrift ==
    /\ live = <<>>
    /\ stateData = EmptyObject
    /\ drift = NoDrift

\* SyncResult, as far as the run sets it
SyncResult(detected, drifted) ==
    [DriftDetected |-> detected, ResourcesDrifted |-> drifted]

NoSyncCalls == [backendCloses |-> 0, adapters |-> 0, adapterCloses |-> 0,
                iterators |-> 0, iterCloses |-> 0, detects |-> 0, saves |-> 0]

\* pubSub.Import has not been called
NotImported == [called |-> FALSE, resources |-> <<>>, err |-> NoErr]

IdlePubSub ==
    /\ topicListing = <<>>
    /\ pubsubOut = NotImported

\* no resources are being named
IdleNames ==
    /\ native = <<>>
    /\ names = <<>>

\* no sync run is under way
IdleSync ==
    /\ options = [StateBackend |-> "", Services |-> <<>>, DryRun |-> TRUE]
    /\ syncPc = "returned"
    /\ syncIndex = 0
    /\ result = SyncResult(FALSE, 0)
    /\ runErr = NoErr
    /\ getStateErr = NoErr
    /\ logs = <<>>
    /\ syncCalls = NoSyncCalls
    /\ env = {}

Init ==
    /\ IdleIterator
    /\ IdleDrift
    /\ IdleSync
    /\ IdleNames
    /\ IdlePubSub
    /\ services \in ServiceLists
    /\ svcIndex = 1
    /\ pc = "start"
    /\ serviceErr = NoErr
    /\ importErr = NoErr
    /\ importBlocks \in InitialBlocks
    /\ tfFiles \in InitialFiles
    /\ step = NoStep
    /\ calls = NoCalls
    /\ yielded = {}
    /\ saved = {}
    /\ imported = {}

\* ----------------------------------------------- the import run: actions
\* Client.Import returns e
ImportReturns(e) ==
    /\ pc' = "returned"
    /\ importErr' = e
    /\ UNCHANGED svcIndex

\* ImportService returns e to the loop of Client.Import
ServiceReturns(e) ==
    /\ serviceErr' = e
    /\ IF e # NoErr
       THEN ImportReturns(Errorf("failed to process service", <<>>, e))
       ELSE IF svcIndex = Len(services)
       THEN ImportReturns(NoErr)
       ELSE /\ pc' = "import"
            /\ svcIndex' = svcIndex + 1
            /\ UNCHANGED importErr

\* Client.Import up to its loop: the resources directory
ImportBegin ==
    /\ pc = "start"
    /\ \E io \in {"ok", "fail"} :
         IF io = "fail"
         THEN ImportReturns(Errorf("failed to create directory", <<>>, OsErr))
         ELSE pc' = "import" /\ UNCHANGED <<svcIndex, importErr>>
    /\ UNCHANGED <<itVars, obsVars, diskVars, services, serviceErr, step, calls,
                   yielded, saved, imported, driftVars, syncVars, nameVars, pubsubVars>>

\* s.Import(ctx): the iterator over the buckets, or over the listed instances
NewIterator(service, insts) ==
    /\ kind' = (IF service = "storage" THEN "storage" ELSE "gcloud")
    /\ resourceQueue' = <<>>
    /\ err' = NoErr
    /\ isClosed' = FALSE
    /\ pageToken' = 0
    /\ finished' = FALSE
    /\ instances' = insts
    /\ instanceIndex' = 0
    /\ bucketIter' = [returned |-> 0, done |-> FALSE]
    /\ lastOp' = "none"
    /\ ret' = Exhausted
    /\ upCalls' = 0
    /\ closeCalls' = 0
    /\ answer' = NoAnswer

\* one turn of the loop of Client.Import up to the loop of ImportService:
\* the service directory, the runner, `terraform init`, the adapter of the
\* service and its iterator
StartService ==
    /\ pc = "import"
    /\ LET service == services[svcIndex]
           supported == service \in {"storage", "cloudsql"}
       IN  \E fail \in StartFailures(service) :
             /\ calls' = [calls EXCEPT
                    !.init = IF fail \in {"mkdir", "runner"} THEN @ ELSE @ + 1,
                    !.adapters = IF supported /\ fail \in {"none", "list"}
                                 THEN @ + 1 ELSE @]
             /\ IF fail = "mkdir"
                THEN /\ ImportReturns(Errorf("failed to create service directory",
                                             <<>>, OsErr))
                     /\ UNCHANGED serviceErr
                ELSE IF fail = "runner"
                THEN ServiceReturns(
                       Errorf("failed to create runner", <<>>,
                         Errorf("generator not installed", <<>>,
                           Errorf("terraform is not installed or not in PATH",
                                  <<>>, ExitErr))))
                ELSE IF fail = "init"
                THEN ServiceReturns(
                       Errorf("failed to initialize runner", <<>>,
                         Errorf("failed to initialize", <<>>, ExitErr)))
                ELSE IF ~supported
                THEN ServiceReturns(NoErr)
                ELSE IF fail = "client"
                THEN ServiceReturns(
                       IF service = "storage"
                       THEN Errorf("failed to create Storage client", <<>>,
                              Errorf("failed to create storage client", <<>>,
                                     OsErr))
                       ELSE Errorf("failed to create CloudSQL client", <<>>,
                              Errorf("failed to create cloudsql service", <<>>,
                                     OsErr)))
                ELSE IF fail = "list"
                THEN ServiceReturns(
                       Errorf("failed to create resource iterator", <<>>,
                         Errorf("error listing SQL instances", <<>>, ExitErr)))
                ELSE /\ pc' = "loop"
                     /\ serviceErr' = NoErr
                     /\ UNCHANGED <<svcIndex, importErr>>
             /\ IF supported /\ fail = "none"
                THEN \E insts \in (IF service = "cloudsql"
                                   THEN SeqsUpTo(ImportShapes, MaxInstances)
                                   ELSE {<<>>}) : NewIterator(service, insts)
                ELSE UNCHANGED <<itVars, obsVars>>
    /\ step' = NoStep
    /\ yielded' = {}
    /\ saved' = {}
    /\ imported' = {}
    /\ UNCHANGED <<diskVars, services, driftVars, syncVars, nameVars, pubsubVars>>

\* what one turn of the loop of ImportService does with the resource Next
\* returned: the step it makes, the disk it leaves, the error it returns with
\* and whether the loop goes on
Process(r, out) ==
    LET resource == r.res[1]
        save == SaveImportBlock(resource, importBlocks, out.save)
        import == Import(resource, out.tool)
        cleanup == CleanupImportBlocks(resource, save.blocks, out.cleanup)
        outcome == IF import.err = NoErr THEN "ok"
                   ELSE IF import.err = ErrAlreadyExists THEN "exists"
                   ELSE "fail"
        at == [NoStep EXCEPT !.resource = r.res]
    IN  IF r.err # NoErr
        THEN [step |-> [at EXCEPT !.next = "error"], blocks |-> importBlocks,
              files |-> tfFiles, goesOn |-> FALSE,
              err |-> Errorf("error getting next resource", <<>>, r.err)]
        ELSE IF Len(r.res) = 0
        THEN [step |-> [at EXCEPT !.next = "exhausted"], blocks |-> importBlocks,
              files |-> tfFiles, goesOn |-> FALSE, err |-> NoErr]
        ELSE IF save.err # NoErr
        THEN [step |-> [at EXCEPT !.next = "resource", !.save = "fail"],
              blocks |-> save.blocks, files |-> tfFiles, goesOn |-> FALSE,
              err |-> Errorf("failed to save import block", <<>>, save.err)]
        ELSE IF import.err # NoErr /\ ~isAlreadyExists(import.err)
        THEN [step |-> [at EXCEPT !.next = "resource", !.save = "ok",
                                  !.import = outcome, !.plan = import.plan],
              blocks |-> save.blocks, files |-> import.files, goesOn |-> FALSE,
              err |-> Errorf("failed to import resource", <<>>, import.err)]
        ELSE LET did == [at EXCEPT !.next = "resource", !.save = "ok",
                                   !.import = outcome, !.plan = import.plan]
             IN  IF cleanup.err # NoErr
                 THEN [step |-> [did EXCEPT !.cleanup = "fail"],
                       blocks |-> cleanup.blocks, files |-> import.files,
                       goesOn |-> FALSE,
                       err |-> Errorf("failed to cleanup import blocks", <<>>,
                                      cleanup.err)]
                 ELSE [step |-> [did EXCEPT !.cleanup = "ok"],
                       blocks |-> cleanup.blocks, files |-> import.files,
                       goesOn |-> TRUE, err |-> NoErr]

\* one turn of the loop of ImportService: Next, SaveImportBlock, Import and
\* CleanupImportBlocks, up to the turn's end or to the return
ImportServiceLoop ==
    /\ pc = "loop"
    /\ \/ \E ans \in BucketAnswers, policy \in PolicyAnswers :
            StorageNext(ans, policy)
       \/ \E deps \in GcloudDepAnswers : GcloudNext(deps)
    /\ \E out \in (IF Len(ret'.res) = 0 THEN {AllOk} ELSE Outcomes) :
         LET did == Process(ret', out)
             ids == IF Len(ret'.res) = 0 THEN {} ELSE {Key(ret'.res[1])}
         IN  /\ step' = did.step
             /\ importBlocks' = did.blocks
             /\ tfFiles' = did.files
             /\ serviceErr' = did.err
             /\ pc' = (IF did.goesOn THEN "loop" ELSE "closing")
             /\ calls' = [calls EXCEPT
                    !.next = @ + 1,
                    !.save = IF did.step.save # "none" THEN @ + 1 ELSE @,
                    !.import = IF did.step.import # "none" THEN @ + 1 ELSE @,
                    !.plan = IF did.step.plan THEN @ + 1 ELSE @,
                    !.cleanup = IF did.step.cleanup # "none" THEN @ + 1 ELSE @]
             /\ yielded' = yielded \cup Flatten(ret'.res)
             /\ saved' = saved \cup
                    (IF did.step.save # "none" THEN ids ELSE {})
             /\ imported' = imported \cup
                    (IF did.step.import # "none" THEN ids ELSE {})
    /\ UNCHANGED <<services, svcIndex, importErr, driftVars, syncVars, nameVars, pubsubVars>>

\* an ImportService that returns without the deferred Close
ImportServiceReturnLeaks ==
    /\ pc = "closing"
    /\ ServiceReturns(serviceErr)
    /\ UNCHANGED <<itVars, obsVars, diskVars, services, step, calls, yielded,
                   saved, imported, driftVars, syncVars, nameVars, pubsubVars>>

\* the return of ImportService from its loop: the deferred resourceIter.Close()
\* and the next turn, or the return, of Client.Import
ImportServiceReturn ==
    /\ pc = "closing"
    /\ Close
    /\ ServiceReturns(serviceErr)
    /\ UNCHANGED <<diskVars, services, step, calls, yielded, saved, imported,
                   driftVars, syncVars, nameVars, pubsubVars>>

Next == ImportBegin \/ StartService \/ ImportServiceLoop \/ ImportServiceReturn


\* ------------------------------------------- a free client of an iterator

IterInit ==
    /\ kind \in {"storage", "paged", "gcloud"}
    /\ resourceQueue = <<>>
    /\ err = NoErr
    /\ isClosed = FALSE
    /\ pageToken = 0
    /\ finished = FALSE
    /\ instances \in (IF kind = "gcloud" THEN SeqsUpTo(IterShapes, MaxInstances)
                      ELSE {<<>>})
    /\ instanceIndex = 0
    /\ bucketIter = [returned |-> 0, done |-> FALSE]
    /\ lastOp = "none"
    /\ ret = Exhausted
    /\ upCalls = 0
    /\ closeCalls = 0
    /\ answer = NoAnswer
    /\ IdleImport
    /\ IdleDrift
    /\ IdleSync
    /\ IdleNames
    /\ IdlePubSub

IterStorageNext ==
    /\ \E ans \in BucketAnswers, policy \in PolicyAnswers : StorageNext(ans, policy)
    /\ UNCHANGED <<diskVars, runVars, driftVars, syncVars, nameVars, pubsubVars>>

IterPagedNext ==
    \/ /\ ~pagedFetches
       /\ PagedNext(Page(<<>>, 0))
       /\ UNCHANGED <<diskVars, runVars, driftVars, syncVars, nameVars, pubsubVars>>
    \/ /\ pagedFetches
       /\ \E e \in UpstreamErrs : PagedNext(PageErr(e))
       /\ UNCHANGED <<diskVars, runVars, driftVars, syncVars, nameVars, pubsubVars>>
    \/ /\ pagedFetches
       /\ \E items \in SeqsUpTo(Items(PagedShapes), MaxPageLen), t \in NextTokens :
            PagedNext(Page(items, t))
       /\ UNCHANGED <<diskVars, runVars, driftVars, syncVars, nameVars, pubsubVars>>

IterGcloudNext ==
    /\ \E deps \in GcloudDepAnswers : GcloudNext(deps)
    /\ UNCHANGED <<diskVars, runVars, driftVars, syncVars, nameVars, pubsubVars>>

IterClose ==
    /\ kind # "none"
    /\ Close
    /\ UNCHANGED <<diskVars, runVars, driftVars, syncVars, nameVars, pubsubVars>>

IterNext == IterStorageNext \/ IterPagedNext \/ IterGcloudNext \/ IterClose

vars == <<itVars, obsVars, diskVars, runVars, driftVars, syncVars, nameVars,
          pubsubVars>>

SpecIter == IterInit /\ [][IterNext]_vars

Spec == Init /\ [][Next]_vars

\* ------------------------------------------------------ drift: inputs
\* the native id of the n-th resource of the project
LiveID(n) == ID("projects/%s/topics/%s %s", <<n>>)

\* the live resources a call is given
LiveShapes ==
    { LiveResource(ResourceTypePubSubTopicIAM, <<1>>, LiveID(1), Strings(<<"a", "b">>)),
      LiveResource(ResourceTypePubSubTopicIAM, <<1>>, LiveID(1), Strings(<<"b", "a">>)),
      LiveResource(ResourceTypePubSubTopicIAM, <<1>>, LiveID(1), Missing),
      LiveResource(ResourceTypePubSubTopicIAM, <<2>>, LiveID(2), Strings(<<"a", "b">>)),
      LiveResource(ResourceTypePubSubSubscriptionIAM, <<2>>, LiveID(2),
                   Strings(<<"a", "b">>)),
      LiveResource(ResourceTypeStorageBucketIAMBinding, <<2>>, LiveID(2),
                   Strings(<<"a", "b">>)) }

\* a well-formed snapshot entry with this id and this value under members
GoodEntry(n, members) ==
    Entry(TRUE, [ok |-> TRUE, v |-> LiveID(n)], TRUE, TRUE, TRUE,
          [ok |-> TRUE, members |-> members])

\* the elements of the snapshot's resources array
EntryShapes ==
    { Entry(FALSE, [ok |-> FALSE, v |-> LiveID(1)], FALSE, FALSE, FALSE,
            [ok |-> FALSE, members |-> Missing]),
      [GoodEntry(1, Anys(<<Str("a"), Str("b")>>)) EXCEPT !.id.ok = FALSE],
      [GoodEntry(1, Anys(<<Str("a"), Str("b")>>)) EXCEPT !.type = FALSE],
      [GoodEntry(2, Missing) EXCEPT !.attributes.ok = FALSE],
      GoodEntry(1, Anys(<<Str("a"), Str("b")>>)),
      GoodEntry(1, Anys(<<Str("a"), NotStr>>)),
      GoodEntry(1, Missing),
      GoodEntry(2, Anys(<<Str("a")>>)) }

\* the snapshots a call is given: not JSON, JSON without a resources array
\* ("{}"), or JSON with one
Snapshots ==
    {StateData(FALSE, "missing", <<>>), EmptyObject}
    \cup {StateData(TRUE, "list", l) : l \in SeqsUpTo(EntryShapes, MaxEntries)}

\* ------------------------------------------- a free caller of the detector
DriftInit ==
    /\ IdleIterator
    /\ IdleImport
    /\ IdleSync
    /\ IdleNames
    /\ IdlePubSub
    /\ live \in SeqsUpTo(LiveShapes, MaxLive)
    /\ stateData \in Snapshots
    /\ drift = NoDrift

Detect ==
    /\ drift.outcome = "none"
    /\ drift' = DetectResourceDrift(live, stateData)
    /\ UNCHANGED <<live, stateData, itVars, obsVars, diskVars, runVars, syncVars, nameVars, pubsubVars>>

SpecDrift == DriftInit /\ [][Detect]_vars

\* --------------------------------------------------- the sync run: inputs
\* s.options: the backend, the services in their order, the dry-run flag
SyncOptions ==
    [StateBackend : {"gcs", "local"},
     Services : SeqsUpTo({"pubsub", "storage"}, MaxServices),
     DryRun : BOOLEAN]

\* the snapshots GetState answers with
SyncSnapshots ==
    { StateData(TRUE, "list", <<>>),
      StateData(TRUE, "list", <<GoodEntry(1, Anys(<<Str("a"), Str("b")>>))>>),
      StateData(TRUE, "list",
                <<[GoodEntry(1, Anys(<<Str("a"), Str("b")>>)) EXCEPT !.type = FALSE]>>) }

\* the resources the Pub/Sub adapter's iterator yields in one pass
SyncLive ==
    SeqsUpTo({ LiveResource(ResourceTypePubSubTopicIAM, <<1>>, LiveID(1),
                            Strings(<<"a", "b">>)),
               LiveResource(ResourceTypePubSubTopicIAM, <<2>>, LiveID(2),
                            Strings(<<"a", "b">>)) }, MaxLive)

\* what may go wrong in processPubSub around the detector
PubSubFailures == {"none", "client", "import", "next", "generator"}

\* ------------------------------------------------------- the sync run
SyncInit ==
    /\ IdleIterator
    /\ IdleImport
    /\ IdleDrift
    /\ IdleNames
    /\ IdlePubSub
    /\ options \in SyncOptions
    /\ syncPc = "start"
    /\ syncIndex = 1
    /\ result = SyncResult(FALSE, 0)
    /\ runErr = NoErr
    /\ getStateErr = NoErr
    /\ logs = <<>>
    /\ syncCalls = NoSyncCalls
    /\ env = {}

\* the answers of stateBackend.GetState
GetStateAnswers ==
    {[data |-> d, err |-> NoErr] : d \in SyncSnapshots}
    \cup {[data |-> EmptyObject,
           err |-> Errorf("failed to read state from GCS", <<>>,
                          <<Layer("E1", <<>>)>>)]}

\* Service.Run up to its loop: the backend, then GetState; when GetState
\* fails the run goes on with []byte("{}")
RunBegin ==
    /\ syncPc = "start"
    /\ IF options.StateBackend # "gcs"
       THEN /\ syncPc' = "returned"
            /\ runErr' = <<Layer("unsupported state backend: %s",
                                 <<options.StateBackend>>)>>
            /\ UNCHANGED <<stateData, getStateErr>>
       ELSE \E backend \in {NoErr, <<Layer("no credentials provided", <<>>)>>} :
               IF backend # NoErr
               THEN /\ syncPc' = "returned"
                    /\ runErr' = Errorf("failed to initialize state backend",
                                        <<>>, backend)
                    /\ UNCHANGED <<stateData, getStateErr>>
               ELSE \E got \in GetStateAnswers :
                       /\ syncPc' = "loop"
                       /\ runErr' = NoErr
                       /\ getStateErr' = got.err
                       /\ stateData' = got.data
    /\ UNCHANGED <<live, drift, options, syncIndex, result, logs, syncCalls, env,
                   itVars, obsVars, diskVars, runVars, nameVars, pubsubVars>>

\* generator.SaveImportBlock for each resource in turn; a failure is logged
\* and the loop goes on
RECURSIVE saveAll(_, _, _, _)
saveAll(resources, i, blocks, fails) ==
    IF i > Len(resources) THEN blocks
    ELSE saveAll(resources, i + 1,
                 SaveImportBlock(resources[i], blocks,
                                 IF i \in fails THEN "fail" ELSE "ok").blocks,
                 fails)

\* processPubSub: the error it returns (or its panic), the result it leaves,
\* the calls it makes and the import blocks on disk
processPubSub(failure, resources, fails, data, res, dryRun, blocks) ==
    LET found == DetectResourceDrift(resources, data)
        counted == IF Len(found.results) > 0
                   THEN SyncResult(TRUE, Len(found.results))
                   ELSE res
        made(adapter, iter, detect, saves) ==
            [adapters |-> adapter, adapterCloses |-> adapter,
             iterators |-> iter, iterCloses |-> iter, detects |-> detect,
             saves |-> saves]
        base == [panic |-> FALSE, err |-> NoErr, result |-> res,
                 calls |-> made(0, 0, 0, 0), live |-> <<>>, drift |-> NoDrift,
                 blocks |-> blocks]
    IN  IF failure = "client"
        THEN [base EXCEPT !.err = Errorf("failed to initialize PubSub importer",
                                         <<>>, <<Layer("E1", <<>>)>>)]
        ELSE IF failure = "import"
        THEN [base EXCEPT !.err = Errorf("failed to import PubSub resources",
                                         <<>>, <<Layer("E1", <<>>)>>),
                          !.calls = made(1, 0, 0, 0)]
        ELSE IF failure = "next"
        THEN [base EXCEPT !.err = Errorf("error iterating resources", <<>>,
                                         <<Layer("E1", <<>>)>>),
                          !.calls = made(1, 1, 0, 0)]
        ELSE IF found.outcome = "panic"
        THEN [base EXCEPT !.panic = TRUE, !.calls = made(1, 1, 1, 0),
                          !.live = resources, !.drift = found]
        ELSE IF found.outcome = "error"
        THEN [base EXCEPT !.err = Errorf("failed to detect drift", <<>>, found.err),
                          !.calls = made(1, 1, 1, 0),
                          !.live = resources, !.drift = found]
        ELSE IF dryRun
        THEN [base EXCEPT !.result = counted, !.calls = made(1, 1, 1, 0),
                          !.live = resources, !.drift = found]
        ELSE IF failure = "generator"
        THEN [base EXCEPT !.err = <<Layer("generator not installed", <<>>)>>,
                          !.result = counted, !.calls = made(1, 1, 1, 0),
                          !.live = resources, !.drift = found]
        ELSE [base EXCEPT !.result = counted,
                          !.calls = made(1, 1, 1, Len(resources)),
                          !.live = resources, !.drift = found,
                          !.blocks = saveAll(resources, 1, blocks, fails)]

\* one turn of the loop of Service.Run with serviceName "pubsub"
ProcessPubSub ==
    /\ syncPc = "loop"
    /\ syncIndex <= Len(options.Services)
    /\ options.Services[syncIndex] = "pubsub"
    /\ \E failure \in PubSubFailures, resources \in SyncLive :
       \E fails \in SUBSET (1..Len(resources)) :
          LET done == processPubSub(failure, resources, fails, stateData, result,
                                    options.DryRun, importBlocks)
              collects == failure \notin {"client", "import", "next"}
              detects == collects /\ done.drift.outcome = "returned"
              saves == detects /\ ~options.DryRun /\ failure # "generator"
          IN  \* an input the call does not reach is not chosen
              /\ collects \/ resources = <<>>
              /\ saves \/ fails = {}
              /\ (failure = "generator") => (detects /\ ~options.DryRun)
              /\ live' = IF collects THEN done.live ELSE live
              /\ drift' = IF collects THEN done.drift ELSE drift
              /\ result' = done.result
              /\ importBlocks' = done.blocks
              /\ syncCalls' = [k \in DOMAIN syncCalls |->
                                 IF k = "backendCloses"
                                 THEN syncCalls[k] + (IF done.panic THEN 1 ELSE 0)
                                 ELSE syncCalls[k] + done.calls[k]]
              /\ IF done.panic
                 THEN /\ syncPc' = "panicked"
                      /\ UNCHANGED <<syncIndex, logs>>
                 ELSE /\ syncPc' = "loop"
                      /\ syncIndex' = syncIndex + 1
                      /\ logs' = Append(logs,
                                   [service |-> "pubsub",
                                    level |-> IF done.err # NoErr THEN "error"
                                              ELSE "none",
                                    err |-> done.err])
    /\ UNCHANGED <<stateData, options, runErr, getStateErr, env, tfFiles,
                   itVars, obsVars, runVars, nameVars, pubsubVars>>

\* one turn of the loop with any other serviceName: the default case
UnsupportedService ==
    /\ syncPc = "loop"
    /\ syncIndex <= Len(options.Services)
    /\ options.Services[syncIndex] # "pubsub"
    /\ syncIndex' = syncIndex + 1
    /\ logs' = Append(logs, [service |-> options.Services[syncIndex],
                             level |-> "warn", err |-> NoErr])
    /\ UNCHANGED <<driftVars, options, syncPc, result, runErr, getStateErr,
                   syncCalls, env, itVars, obsVars, diskVars, runVars, nameVars, pubsubVars>>

\* a Run that marks the drift of a dry run as well
setsDriftDetectedAlways(res, dryRun) == res.DriftDetected

\* whether Run sets DRIFT_DETECTED for GitHub Actions
setsDriftDetected(res, dryRun) == res.DriftDetected /\ ~dryRun

\* Service.Run after its loop
RunReturn ==
    /\ syncPc = "loop"
    /\ syncIndex > Len(options.Services)
    /\ syncPc' = "returned"
    /\ runErr' = NoErr
    /\ env' = IF setsDriftDetected(result, options.DryRun)
              THEN {"DRIFT_DETECTED"} ELSE env
    /\ syncCalls' = [syncCalls EXCEPT !.backendCloses = @ + 1]
    /\ UNCHANGED <<driftVars, options, syncIndex, result, getStateErr, logs,
                   itVars, obsVars, diskVars, runVars, nameVars, pubsubVars>>

SyncNext == RunBegin \/ ProcessPubSub \/ UnsupportedService \/ RunReturn

SpecSync == SyncInit /\ [][SyncNext]_vars

\* ------------------------------------------------------------ naming
\* a name is the sequence of its characters
ReplaceAll(name, old, new) ==
    [i \in 1..Len(name) |-> IF name[i] = old THEN new ELSE name[i]]

\* a sanitizeName that forgets the "/"
sanitizeNameKeepsSlash(name) ==
    ReplaceAll(ReplaceAll(name, "-", "_"), ".", "_")

sanitizeName(name) ==
    ReplaceAll(ReplaceAll(ReplaceAll(name, "-", "_"), ".", "_"), "/", "_")

\* roleSuffix: strings.Replace(role, "/", "_", -1), then of "."
roleSuffix(role) == ReplaceAll(ReplaceAll(role, "/", "_"), ".", "_")

\* fmt.Sprintf("%s_%s", a, b)
Sprintf2(a, b) == a \o <<"_">> \o b

\* a live resource as the adapter meets it: its kind, its own native name
\* and the native name of the resource it belongs to (<<>> at top level)
Native(what, parent, name) == [kind |-> what, parent |-> parent, name |-> name]

\* the Name the adapter gives it
DerivedName(r) ==
    IF r.kind \in {"bucket", "instance"}
    THEN sanitizeName(r.name)
    ELSE IF r.kind = "binding"
    THEN Sprintf2(sanitizeName(r.parent), sanitizeName(roleSuffix(r.name)))
    ELSE Sprintf2(sanitizeName(r.parent), sanitizeName(r.name))

\* the native names a listing answers with: letters, "-", "." and "/",
\* with a letter first and last
NativeNames ==
    {n \in UNION {[1..k -> {"a", "-", ".", "/"}] : k \in 1..MaxNameLen} :
        n[1] = "a" /\ n[Len(n)] = "a"}

\* the resources of one service
NativeOf(service) ==
    IF service = "storage"
    THEN {Native("bucket", <<>>, n) : n \in NativeNames}
         \cup {Native("binding", p, n) : p \in NativeNames, n \in NativeNames}
    ELSE {Native("instance", <<>>, n) : n \in NativeNames}
         \cup {Native(k, p, n) : k \in {"database", "user"},
                                 p \in NativeNames, n \in NativeNames}

\* two resources of one service
NamesInit ==
    /\ IdleIterator
    /\ IdleImport
    /\ IdleDrift
    /\ IdleSync
    /\ IdlePubSub
    /\ \E service \in {"storage", "cloudsql"} :
          native \in [1..2 -> NativeOf(service)]
    /\ names = <<>>

\* the adapter names them
Derive ==
    /\ names = <<>>
    /\ names' = [i \in 1..Len(native) |-> DerivedName(native[i])]
    /\ UNCHANGED <<native, itVars, obsVars, diskVars, runVars, driftVars, syncVars,
                   pubsubVars>>

SpecNames == NamesInit /\ [][Derive]_vars

\* ------------------------------------------------ the Pub/Sub adapter
ResourceTypePubSubTopic == "pubsub_topic"
ResourceTypePubSubSubscription == "pubsub_subscription"

\* a Resource of the Pub/Sub adapter, with the value under
\* Attributes["members"]
PubSubResource(type, name, id, members, dependents) ==
    [Type |-> type, Name |-> name, ID |-> id,
     Attributes |-> [members |-> members], Dependents |-> dependents]

\* the bindings of a policy: each role with its members
Bindings ==
    [role : {<<"r", "/", "v">>, <<"r", ".", "w">>},
     members : {<<>>, <<"m1">>, <<"m1", "m2">>}]

\* what IAM().Policy(ctx) may answer: an error or the bindings
Policies ==
    {[err |-> <<Layer("E1", <<>>)>>, bindings |-> <<>>]}
    \cup {[err |-> NoErr, bindings |-> b] : b \in SeqsUpTo(Bindings, MaxDeps)}

\* what the subscriptions of a topic may answer: an error, none, or one
\* subscription with its policy
Subscriptions ==
    {[err |-> <<Layer("E1", <<>>)>>, subs |-> <<>>],
     [err |-> NoErr, subs |-> <<>>]}
    \cup {[err |-> NoErr, subs |-> <<[name |-> <<"s", ".", "b">>, policy |-> q]>>] :
            q \in {[err |-> <<Layer("E1", <<>>)>>, bindings |-> <<>>],
                   [err |-> NoErr,
                    bindings |-> <<[role |-> <<"r", "/", "v">>,
                                    members |-> <<"m1", "m2">>]>>]}}

\* the topics the listing answers with
TopicShapes ==
    [name : {<<"o", "-", "t">>, <<"a">>}, policy : Policies, subs : Subscriptions]

\* the bindings of a topic or a subscription: one Resource for each role
\* that has members, named <type>.<name>_<role>; no Attributes are set
RECURSIVE iamBindings(_, _, _, _, _, _)
iamBindings(type, prefix, fmt, nativeName, bindings, j) ==
    IF j > Len(bindings) THEN <<>>
    ELSE (IF Len(bindings[j].members) > 0
          THEN <<PubSubResource(
                   type,
                   <<prefix, ".">>
                     \o Sprintf2(sanitizeName(nativeName),
                                 sanitizeName(roleSuffix(bindings[j].role))),
                   ID(fmt, <<nativeName, bindings[j].role>>),
                   Missing, <<>>)>>
          ELSE <<>>)
         \o iamBindings(type, prefix, fmt, nativeName, bindings, j + 1)

getTopicIAMBindings(topicName, policy) ==
    IF policy.err # NoErr
    THEN [res |-> <<>>,
          err |-> Errorf("error getting IAM policy for topic %s", <<topicName>>,
                         policy.err)]
    ELSE [res |-> iamBindings(ResourceTypePubSubTopicIAM,
                              "google_pubsub_topic_iam_binding",
                              "projects/%s/topics/%s %s",
                              topicName, policy.bindings, 1),
          err |-> NoErr]

getSubscriptionIAMBindings(subName, policy) ==
    IF policy.err # NoErr
    THEN [res |-> <<>>,
          err |-> Errorf("error getting IAM policy for subscription %s",
                         <<subName>>, policy.err)]
    ELSE [res |-> iamBindings(ResourceTypePubSubSubscriptionIAM,
                              "google_pubsub_subscription_iam_binding",
                              "projects/%s/subscriptions/%s %s",
                              subName, policy.bindings, 1),
          err |-> NoErr]

RECURSIVE subscriptionsFrom(_, _, _)
subscriptionsFrom(topicName, subs, j) ==
    IF j > Len(subs) THEN [res |-> <<>>, err |-> NoErr]
    ELSE LET subName == subs[j].name
             bindings == getSubscriptionIAMBindings(subName, subs[j].policy)
             rest == subscriptionsFrom(topicName, subs, j + 1)
         IN  IF bindings.err # NoErr
             THEN [res |-> <<>>,
                   err |-> Errorf("error getting IAM bindings for subscription %s",
                                  <<subName>>, bindings.err)]
             ELSE IF rest.err # NoErr THEN rest
             ELSE [res |-> <<PubSubResource(
                               ResourceTypePubSubSubscription,
                               sanitizeName(subName),
                               ID("projects/%s/subscriptions/%s", <<subName>>),
                               Missing, bindings.res)>> \o rest.res,
                   err |-> NoErr]

topicSubscriptions(topicName, listed) ==
    IF listed.err # NoErr
    THEN [res |-> <<>>,
          err |-> Errorf("error iterating subscriptions for topic %s",
                         <<topicName>>, listed.err)]
    ELSE subscriptionsFrom(topicName, listed.subs, 1)

\* pubSub.Import: the loop over the topics from the i-th on
RECURSIVE importTopics(_, _, _)
importTopics(topics, i, resources) ==
    IF i > Len(topics)
    THEN [called |-> TRUE, resources |-> resources, err |-> NoErr]
    ELSE LET topicName == topics[i].name
             bindings == getTopicIAMBindings(topicName, topics[i].policy)
             subscriptions == topicSubscriptions(topicName, topics[i].subs)
         IN  IF bindings.err # NoErr
             THEN [called |-> TRUE, resources |-> <<>>,
                   err |-> Errorf("error getting IAM bindings for topic %s",
                                  <<topicName>>, bindings.err)]
             ELSE IF subscriptions.err # NoErr
             THEN [called |-> TRUE, resources |-> <<>>,
                   err |-> Errorf("error getting subscriptions for topic %s",
                                  <<topicName>>, subscriptions.err)]
             ELSE importTopics(topics, i + 1,
                    Append(resources,
                           PubSubResource(ResourceTypePubSubTopic,
                                          sanitizeName(topicName),
                                          ID("projects/%s/topics/%s", <<topicName>>),
                                          Missing,
                                          bindings.res \o subscriptions.res)))

PubSubInit ==
    /\ IdleIterator
    /\ IdleImport
    /\ IdleDrift
    /\ IdleSync
    /\ IdleNames
    /\ topicListing \in SeqsUpTo(TopicShapes, MaxTopics)
    /\ pubsubOut = NotImported

PubSubImport ==
    /\ ~pubsubOut.called
    /\ pubsubOut' = importTopics(topicListing, 1, <<>>)
    /\ UNCHANGED <<topicListing, itVars, obsVars, diskVars, runVars, driftVars,
                   syncVars, nameVars>>

SpecPubSub == PubSubInit /\ [][PubSubImport]_vars

\* ------------------------------------------------- the iterator protocol

\* C1: once a Next call on an unclosed iterator has returned the exhausted
\* signal (nil, nil), every later Next call on that iterator, while it is not
\* closed, returns the exhausted signal again.
C1_ExhaustedIsFinal ==
    [][(/\ lastOp = "Next" /\ ret = Exhausted /\ ~isClosed
        /\ lastOp' = "Next" /\ ~isClosed')
       => ret' = Exhausted]_vars

\* the same statement of the two iterators that keep it
C1_ExhaustedIsFinalUnpaged ==
    [][(/\ kind # "paged"
        /\ lastOp = "Next" /\ ret = Exhausted /\ ~isClosed
        /\ lastOp' = "Next" /\ ~isClosed')
       => ret' = Exhausted]_vars

\* C2: once a Next call on an unclosed iterator has returned an error, the
\* next Next call (and so every later one) returns that same error and no
\* resource, and makes no upstream call.
C2_FailureIsSticky ==
    [][(/\ lastOp = "Next" /\ ret.err # NoErr /\ ~isClosed
        /\ lastOp' = "Next" /\ ~isClosed')
       => (ret'.err = ret.err /\ ret'.res = <<>> /\ upCalls' = 0)]_vars

\* a Next call after the failing one has returned: the failing call itself
\* always reaches the upstream
C2_Witness ==
    lastOp = "Next" /\ ret.err # NoErr /\ ~isClosed /\ upCalls = 0

\* C3: on a closed iterator every Next call fails with the closed-iterator
\* error, yields no resource and makes no upstream call, whatever the iterator
\* held when it was closed.
C3_ClosedFails ==
    (isClosed /\ lastOp = "Next")
    => (ret = [res |-> <<>>, err |-> ErrClosed] /\ upCalls = 0)

\* a Next call on an iterator closed with resources still queued
C3_Witness ==
    isClosed /\ lastOp = "Next" /\ Len(resourceQueue) > 0

\* C4: every Close call returns no error and leaves the iterator closed, and a
\* Close call on a closed iterator changes nothing of the iterator.
C4_CloseIdempotent ==
    [][lastOp' = "Close"
       => (/\ ret'.err = NoErr
           /\ isClosed'
           /\ (isClosed => itVars' = itVars))]_vars

\* a second Close call has returned
C4_Witness ==
    closeCalls = 2 /\ lastOp = "Close" /\ isClosed

\* ------------------------------------------------ the import orchestrator

\* C5: when ImportService has drained the iterator of a service without an
\* error, it has called SaveImportBlock and runner.Import for every resource
\* the iterator yielded and for every resource of their Dependents trees.
C5_DependentsImported ==
    (pc = "closing" /\ serviceErr = NoErr) =>
        (yielded \subseteq saved /\ yielded \subseteq imported)

\* C6: runner.Import of a resource whose definition file exists returns
\* ErrAlreadyExists, does not run the provisioning tool and changes no
\* definition file.
C6_ExistingFileKept ==
    [][(/\ calls'.import = calls.import + 1
        /\ resourceFilePath(step'.resource[1]) \in DOMAIN tfFiles)
       => (step'.import = "exists" /\ ~step'.plan /\ calls'.plan = calls.plan
           /\ tfFiles' = tfFiles)]_vars

\* a file written by hand was met by an import and is as it was
C6_Witness ==
    /\ step.import = "exists"
    /\ tfFiles[resourceFilePath(step.resource[1])] = Manual

\* C7: an ErrAlreadyExists of runner.Import is not returned by ImportService,
\* bare or wrapped, and when the cleanup that follows it succeeds the loop
\* goes on to the next resource.
C7_AlreadyExistsIsLogged ==
    step.import = "exists" =>
        /\ ~Is(serviceErr, ErrAlreadyExists)
        /\ ~Is(importErr, ErrAlreadyExists)
        /\ step.cleanup # "none"
        /\ step.cleanup = "ok" => (pc = "loop" /\ serviceErr = NoErr)

\* the second bucket was imported after the first one was found to exist
C7_Witness ==
    /\ kind = "storage"
    /\ step.import = "ok"
    /\ step.resource[1].Name = <<2>>
    /\ [Service |-> "storage", Name |-> <<1>>] \in DOMAIN tfFiles
    /\ tfFiles[[Service |-> "storage", Name |-> <<1>>]] = Manual

\* an error names a resource when a layer of it has the resource's name, or
\* the values of its id, among the values formatted into the layer
Mentions(e, resource) ==
    \E i \in 1..Len(e) : \E j \in 1..Len(e[i].args) :
        e[i].args[j] \in {resource.Name, resource.ID.args}

\* the error ImportService returns for a failed import wraps the failure
C8_ImportFailureWrapped ==
    step.import = "fail" =>
        Is(serviceErr, Errorf("failed to import resource", <<>>, ExitErr))

\* C8: the error ImportService returns for an import that failed with another
\* error than ErrAlreadyExists wraps that failure and carries the identifier
\* of the resource.
C8_ImportFailureCarriesID ==
    step.import = "fail" =>
        /\ Is(serviceErr, Errorf("failed to import resource", <<>>, ExitErr))
        /\ Mentions(serviceErr, step.resource[1])

FailedOnResource ==
    \/ step.next = "error" /\ ~Is(serviceErr, ErrClosed)
    \/ step.save = "fail"
    \/ step.import = "fail"
    \/ step.cleanup = "fail"

\* C10: Client.Import does not return from a failure on one resource while
\* resources of the service or configured services remain to be processed.
C10_RunSurvivesResourceFailure ==
    (pc = "returned" /\ FailedOnResource) =>
        (svcIndex = Len(services) /\ step.next # "resource")

\* C11: when Client.Import has returned, every adapter ImportService created
\* (NewStorage, NewCloudSQL) has had its Close called exactly once.
C11_AdapterClosedOnce ==
    pc = "returned" => calls.adapterCloses = calls.adapters

\* ------------------------------------------------------ the drift detector

\* how many elements of a sequence of resources or of results have this id
LiveWith(id) == Cardinality({i \in 1..Len(live) : live[i].ID = id})
ResultsWith(id) ==
    Cardinality({i \in 1..Len(drift.results) : drift.results[i].ResourceID = id})

\* the snapshot is JSON with a resources array; the ids of its entries
HasResources == stateData.json /\ stateData.resources.tag = "list"
SnapshotEntries == stateData.resources.entries
SnapshotIDs ==
    {SnapshotEntries[i].id.v :
       i \in {j \in 1..Len(SnapshotEntries) :
                SnapshotEntries[j].isMap /\ SnapshotEntries[j].id.ok}}

\* every entry with an id has its other fields, and no members array of an
\* entry has an element that is not a string
EntriesComplete ==
    \A i \in 1..Len(SnapshotEntries) :
        LET e == SnapshotEntries[i]
        IN  (e.isMap /\ e.id.ok) =>
                (e.type /\ e.name /\ e.provider /\ e.attributes.ok)
MembersAreStrings ==
    \A i \in 1..Len(SnapshotEntries) :
        \A j \in 1..Len(SnapshotEntries[i].attributes.members.elems) :
            SnapshotEntries[i].attributes.members.elems[j].str

ExistenceChange == [k \in {"existence"} |-> Change(BoolVal(FALSE), BoolVal(TRUE))]

\* every live resource whose id no snapshot entry has is reported once, as new
ReportedAsNew ==
    \A i \in 1..Len(live) :
        live[i].ID \notin SnapshotIDs =>
            /\ ResultsWith(live[i].ID) = LiveWith(live[i].ID)
            /\ \A k \in 1..Len(drift.results) :
                   drift.results[k].ResourceID = live[i].ID =>
                       /\ drift.results[k].HasDrift
                       /\ drift.results[k].Changes = ExistenceChange

\* C12: when DetectResourceDrift is given a snapshot with a resources array,
\* its result has, for each live resource whose id is the id of no snapshot
\* entry, exactly one DriftResult, with HasDrift and the one change
\* existence = {old: false, new: true}.
C12_ExistenceDrift ==
    (drift.outcome # "none" /\ HasResources) =>
        /\ (\E i \in 1..Len(live) : live[i].ID \notin SnapshotIDs) =>
               drift.outcome = "returned"
        /\ ReportedAsNew

\* the same of the calls that return
C12_ExistenceDriftWhenReturned ==
    drift.outcome = "returned" => ReportedAsNew

\* the snapshot entry DetectResourceDrift compares a live resource with
ByID == stateResourcesByID(SnapshotEntries, 1, NoFiles).byID

\* a live resource with a member list whose snapshot entry has a member list
BothHaveMembers(resource) ==
    /\ resource.Type \in {ResourceTypePubSubTopicIAM,
                          ResourceTypePubSubSubscriptionIAM,
                          ResourceTypeStorageBucketIAMBinding}
    /\ resource.ID \in DOMAIN ByID
    /\ resource.Attributes.members.tag = "strings"
    /\ ByID[resource.ID].Attributes.members.tag = "anys"

LiveMembers(resource) == resource.Attributes.members.elems
SnapshotMembers(resource) ==
    [j \in 1..Len(ByID[resource.ID].Attributes.members.elems) |->
        ByID[resource.ID].Attributes.members.elems[j].v]
Members(l) == {l[j] : j \in 1..Len(l)}

\* the result reports the members of this live resource as changed
MembersChangeOf(r, resource) ==
    /\ r.ResourceID = resource.ID
    /\ r.HasDrift
    /\ r.Changes = [k \in {"members"} |->
                      Change(ListVal(SnapshotMembers(resource)),
                             ListVal(LiveMembers(resource)))]

\* C13: a live resource whose member list is the snapshot's member list in
\* another order is not reported: no result records a members change for it.
C13_MemberOrderIgnored ==
    drift.outcome = "returned" =>
        \A i \in 1..Len(live) :
            (/\ BothHaveMembers(live[i])
             /\ Len(LiveMembers(live[i])) = Len(SnapshotMembers(live[i]))
             /\ Members(LiveMembers(live[i])) = Members(SnapshotMembers(live[i])))
            => ~\E k \in 1..Len(drift.results) :
                   MembersChangeOf(drift.results[k], live[i])

\* C14: a live resource with a member list (topic, subscription or bucket
\* IAM binding) whose snapshot entry records other members is reported with
\* HasDrift and the change members = {old: snapshot members, new: live members}.
C14_MemberChangeReported ==
    drift.outcome = "returned" =>
        \A i \in 1..Len(live) :
            (/\ BothHaveMembers(live[i])
             /\ Members(LiveMembers(live[i])) # Members(SnapshotMembers(live[i])))
            => \E k \in 1..Len(drift.results) :
                   MembersChangeOf(drift.results[k], live[i])

\* C15: a malformed member list, on the live side or in the snapshot, does
\* not make DetectResourceDrift return an error or abort: with a resources
\* array whose entries have all their fields, the call returns its results.
C15_MalformedMembersSkipped ==
    (drift.outcome # "none" /\ HasResources /\ EntriesComplete) =>
        drift.outcome = "returned"

\* C16: a snapshot entry that is malformed or lacks one of type, name,
\* provider, id, attributes does not make DetectResourceDrift fail or abort:
\* with a resources array and member lists of strings, the call returns its
\* results.
C16_MalformedEntrySkipped ==
    (drift.outcome # "none" /\ HasResources /\ MembersAreStrings) =>
        drift.outcome = "returned"

\* C17: every result has the id of a live resource, there are no more
\* results of an id than live resources of it, and so none for a snapshot
\* entry without a live resource.
C17_ResultsAreLive ==
    \A id \in SnapshotIDs \cup {drift.results[k].ResourceID :
                                   k \in 1..Len(drift.results)} :
        ResultsWith(id) <= LiveWith(id)

\* a call returned results while the snapshot had an entry no live resource
\* stands for
C17_Witness ==
    /\ drift.outcome = "returned"
    /\ Len(drift.results) > 0
    /\ \E id \in SnapshotIDs : LiveWith(id) = 0

\* ------------------------------------------------------------ the sync run

\* C18: when GetState has failed, a Pub/Sub pass that collected live
\* resources reports every one of them as new: the result has
\* DriftDetected = true and ResourcesDrifted = the number of live resources.
C18_MissingSnapshotReportsAll ==
    (getStateErr # NoErr /\ drift.outcome # "none" /\ Len(live) > 0) =>
        /\ result.DriftDetected
        /\ result.ResourcesDrifted = Len(live)

\* with a snapshot whose resources array is empty the result is as C18 says
C18_EmptyResourcesReportsAll ==
    (stateData = StateData(TRUE, "list", <<>>) /\ drift.outcome # "none"
     /\ Len(live) > 0) =>
        /\ result.DriftDetected
        /\ result.ResourcesDrifted = Len(live)

\* the run has gone through every service in the configured order, logging
\* a warning for each unsupported one, and returned its result with no error
RanAllServices ==
    /\ syncPc = "returned"
    /\ runErr = NoErr
    /\ Len(logs) = Len(options.Services)
    /\ \A i \in 1..Len(logs) :
          /\ logs[i].service = options.Services[i]
          /\ (options.Services[i] # "pubsub") => logs[i].level = "warn"
          /\ (logs[i].err # NoErr) => logs[i].level = "error"

\* C19: once the state backend is there, a failure in processing a service
\* does not end the run: every run that stops has gone through all the
\* services in order and returned its result with a nil error.
C19_RunSurvivesServiceFailure ==
    /\ syncPc # "panicked"
    /\ (syncPc = "returned" /\ syncCalls.backendCloses > 0) => RanAllServices

\* a service that fails by returning an error does not end the run
C19_RunSurvivesReturnedErrors ==
    (syncPc = "returned" /\ syncCalls.backendCloses > 0) => RanAllServices

\* a run returned after a service had failed
C19_SomeServiceFailed ==
    /\ RanAllServices
    /\ \E i \in 1..Len(logs) : logs[i].level = "error" /\ i < Len(logs)

\* ------------------------------------------------------------------ names

\* C20: two resources of one service whose native names differ get
\* different Names, top-level resources and dependents alike.
C20_DerivedNamesDistinct ==
    (names # <<>> /\ native[1].name # native[2].name) => names[1] # names[2]

\* two resources that differ in their native names and in nothing that
\* sanitizeName replaces do get different Names
C20_DistinctWhenNothingReplaced ==
    (/\ names # <<>>
     /\ native[1].kind = native[2].kind
     /\ native[1] # native[2]
     /\ \A i \in 1..2 : sanitizeName(native[i].name) = native[i].name
                        /\ sanitizeName(native[i].parent) = native[i].parent)
    => names[1] # names[2]

\* the name with "_" in the place of every "-", "." and "/", and every
\* other character as it was
Underscored(name) ==
    [j \in 1..Len(name) |->
        IF name[j] \in {"-", ".", "/"} THEN "_" ELSE name[j]]

\* C21: the Name of a resource is fixed by its native names: two discoveries
\* of the same live resource give the same Name, which is the native name
\* (or parent, "_", native name) with every "-", "." and "/" replaced by "_"
\* and every other character unchanged.
C21_NameStable ==
    names # <<>> =>
        /\ (native[1] = native[2]) => (names[1] = names[2])
        /\ \A i \in 1..2 :
              names[i] = IF native[i].parent = <<>>
                         THEN Underscored(native[i].name)
                         ELSE Underscored(native[i].parent) \o <<"_">>
                              \o Underscored(native[i].name)

\* the same dependent, with a "/" in one native name and a "." in the
\* other, was named twice
C21_Witness ==
    /\ names # <<>>
    /\ native[1] = native[2]
    /\ \E j \in 1..Len(native[1].parent) : native[1].parent[j] = "/"
    /\ \E j \in 1..Len(native[1].name) : native[1].name[j] \in {".", "-"}

\* ------------------------------------------------ the Cloud SQL iterators

\* the resources the call left: the one it returned and those it queued
Produced == ret.res \o resourceQueue

\* how many of them stand for the k-th instance of the page the call listed
ProducedFor(k) ==
    Cardinality({j \in 1..Len(Produced) : Produced[j].Name[2] = k})

\* the instance the error of the call names
ErrInstance == ret.err[1].args[1]

\* C22: an instance whose Settings is nil is passed over: the call that meets
\* it yields no resource for it and no error because of it, and goes on to
\* the instances after it (gcloud variant), or to the rest of the page
\* (paged variant).
C22_NilSettingsSkipped ==
    [][(lastOp' = "Next" /\ ~isClosed /\ err = NoErr /\ Len(resourceQueue) = 0)
       => /\ (/\ kind = "gcloud"
              /\ instanceIndex < Len(instances)
              /\ instances[instanceIndex + 1].Settings.isNil)
             => /\ instanceIndex' > instanceIndex + 1 \/ ret' = Exhausted
                /\ (ret' # Exhausted)
                   => ~instances[instanceIndex'].Settings.isNil
          /\ (kind = "paged")
             => \A k \in 1..Len(answer'.items) :
                   answer'.items[k].inst.Settings.isNil
                   => /\ ProducedFor(k)' = 0
                      /\ (ret'.err # NoErr) => (ErrInstance'[2] # k)
                      /\ \A l \in 1..Len(answer'.items) :
                            (l > k /\ ret'.err = NoErr
                             /\ answer'.items[l].inst.Settings = GoodSettings)
                            => ProducedFor(l)' = 1]_vars

\* a Next call of the gcloud variant passed over an instance with nil
\* Settings and yielded the instance after it
C22_Witness ==
    /\ kind = "gcloud"
    /\ lastOp = "Next"
    /\ ret.res # <<>>
    /\ instanceIndex >= 2
    /\ instances[instanceIndex - 1].Settings.isNil

\* a Next call of the paged variant passed over an instance with nil
\* Settings and yielded the instance after it
C22_WitnessPaged ==
    /\ kind = "paged"
    /\ lastOp = "Next"
    /\ ret.res # <<>>
    /\ \E k \in 1..Len(answer.items) :
          /\ answer.items[k].inst.Settings.isNil
          /\ ret.res[1].Name[2] > k

\* a maintenance window and a query-insights configuration that are there
\* and well formed
WellFormed(instance) ==
    LET st == instance.Settings
    IN  /\ ~st.isNil
        /\ ~st.mwNil /\ ~(st.Day = 0 /\ st.Hour = 0)
        /\ ~st.icNil /\ st.QueryStringLength # 0

\* C23: an instance is yielded only if its maintenance window and its
\* query-insights configuration are there and well formed.
C23_YieldedAreWellFormed ==
    /\ (kind = "gcloud" /\ lastOp = "Next" /\ ret.res # <<>>)
       => WellFormed(instances[instanceIndex])
    /\ (kind = "paged" /\ lastOp = "Next")
       => \A k \in 1..Len(answer.items) :
             ProducedFor(k) > 0 => WellFormed(answer.items[k].inst)

\* what the two variants do keep: an instance is yielded only if it passes
\* the isImportable of its variant
C23_YieldedPassIsImportable ==
    /\ (kind = "gcloud" /\ lastOp = "Next" /\ ret.res # <<>>)
       => isImportableGcloud(instances[instanceIndex])
    /\ (kind = "paged" /\ lastOp = "Next")
       => \A k \in 1..Len(answer.items) :
             ProducedFor(k) > 0 => isImportablePaged(answer.items[k].inst)

\* the users among the dependents of a resource
UsersOf(resource) ==
    {resource.Dependents[j] : j \in {l \in 1..Len(resource.Dependents) :
        resource.Dependents[l].Type = ResourceTypeSQLUser}}

\* the ids of the users follow the engine of the instance: three parts for
\* Postgres, four for MySQL, and no user for another engine
FollowsEngine(instance, resource) ==
    \A u \in UsersOf(resource) :
        IF HasPrefixPostgres(instance.DatabaseVersion)
        THEN u.ID.fmt = "%s/%s/%s"
        ELSE IF HasPrefixMysql(instance.DatabaseVersion)
        THEN u.ID.fmt = "%s/%s/%s/%s"
        ELSE FALSE

\* C24: the id of every yielded user has the format of the engine of its
\* instance, and a failure over the users of an instance of another engine
\* is the unsupported-engine error.
C24_UserIDFollowsEngine ==
    /\ (kind = "gcloud" /\ lastOp = "Next" /\ ret.res # <<>>)
       => FollowsEngine(instances[instanceIndex], ret.res[1])
    /\ (kind = "paged" /\ lastOp = "Next")
       => \A j \in 1..Len(Produced) :
             Produced[j].Name[2] \in 1..Len(answer.items)
             => FollowsEngine(answer.items[Produced[j].Name[2]].inst, Produced[j])

\* the same statement of the gcloud variant alone, with the error of an
\* instance of another engine
C24_UserIDFollowsEngineGcloud ==
    /\ (kind = "gcloud" /\ lastOp = "Next" /\ ret.res # <<>>)
       => FollowsEngine(instances[instanceIndex], ret.res[1])
    /\ (/\ kind = "gcloud" /\ lastOp = "Next" /\ ~isClosed /\ upCalls = 2
        /\ ret.err # NoErr
        /\ ~HasPrefixPostgres(instances[instanceIndex].DatabaseVersion)
        /\ ~HasPrefixMysql(instances[instanceIndex].DatabaseVersion)
        /\ Len(ret.err) = 2)
       => ret.err[2].msg = "unsupported database version %s"

\* users of a Postgres and of a MySQL instance were yielded, and an
\* instance of another engine failed
C24_WitnessPostgres ==
    /\ kind = "gcloud" /\ lastOp = "Next" /\ ret.res # <<>>
    /\ HasPrefixPostgres(instances[instanceIndex].DatabaseVersion)
    /\ UsersOf(ret.res[1]) # {}

C24_WitnessMysql ==
    /\ kind = "gcloud" /\ lastOp = "Next" /\ ret.res # <<>>
    /\ HasPrefixMysql(instances[instanceIndex].DatabaseVersion)
    /\ UsersOf(ret.res[1]) # {}

C24_WitnessUnsupported ==
    /\ kind = "gcloud" /\ lastOp = "Next" /\ upCalls = 2
    /\ Len(ret.err) = 2
    /\ ret.err[2].msg = "unsupported database version %s"

\* ------------------------------------------------- the storage iterator

\* C25: a Next call whose fetch of the bucket's IAM policy fails returns
\* that bucket with no dependents and no error, records no error, and the
\* Next call after it goes back to the bucket listing.
C25_PolicyFailureKeepsBucket ==
    [][/\ (kind = "storage" /\ lastOp' = "Next" /\ answer'.policyErr # NoErr)
          => /\ ret'.err = NoErr
             /\ Len(ret'.res) = 1
             /\ ret'.res[1].Type = ResourceTypeStorageBucket
             /\ ret'.res[1].Name = <<bucketIter.returned + 1>>
             /\ ret'.res[1].Dependents = <<>>
             /\ err' = NoErr
       /\ (/\ kind = "storage" /\ lastOp = "Next" /\ answer.policyErr # NoErr
           /\ lastOp' = "Next" /\ ~isClosed')
          => /\ upCalls' >= 1
             /\ (ret'.res # <<>>)
                => ret'.res[1].Name = <<bucketIter.returned + 1>>]_vars

\* the last bucket of the listing was yielded after the policy of the
\* bucket before it could not be fetched
C25_Witness ==
    /\ kind = "storage"
    /\ lastOp = "Next"
    /\ answer.policyErr # NoErr
    /\ ret.res # <<>>
    /\ bucketIter.returned = MaxBuckets

\* ---------------------------------------------------- the Pub/Sub adapter

\* the dependents of the resource that are bindings of the topic
TopicBindingsOf(resource) ==
    {j \in 1..Len(resource.Dependents) :
        resource.Dependents[j].Type = ResourceTypePubSubTopicIAM}

\* C26: when pubSub.Import returns its resources, each role of a topic's
\* policy that has members is exactly one binding dependent of the topic's
\* resource, named <topic>_<role> (sanitized) and carrying the members under
\* Attributes["members"]; a role without members is no dependent.
C26_OneBindingPerRole ==
    (pubsubOut.called /\ pubsubOut.err = NoErr) =>
        \A i \in 1..Len(topicListing) :
            LET topic == topicListing[i]
                resource == pubsubOut.resources[i]
                held == {j \in 1..Len(topic.policy.bindings) :
                           Len(topic.policy.bindings[j].members) > 0}
            IN  /\ Cardinality(TopicBindingsOf(resource)) = Cardinality(held)
                /\ \A j \in held :
                      \E d \in TopicBindingsOf(resource) :
                          /\ resource.Dependents[d].Name =
                                Underscored(topic.name) \o <<"_">>
                                \o Underscored(topic.policy.bindings[j].role)
                          /\ resource.Dependents[d].Attributes.members =
                                Strings(topic.policy.bindings[j].members)

\* what the adapter does keep: one binding dependent for each role with
\* members, bearing the id of the topic and the role, and none for the others
C26_OneBindingPerRoleByID ==
    (pubsubOut.called /\ pubsubOut.err = NoErr) =>
        \A i \in 1..Len(topicListing) :
            LET topic == topicListing[i]
                resource == pubsubOut.resources[i]
                held == {j \in 1..Len(topic.policy.bindings) :
                           Len(topic.policy.bindings[j].members) > 0}
            IN  /\ Cardinality(TopicBindingsOf(resource)) = Cardinality(held)
                /\ \A j \in held :
                      \E d \in TopicBindingsOf(resource) :
                          resource.Dependents[d].ID.args =
                              <<topic.name, topic.policy.bindings[j].role>>

\* ------------------------------------------------ the configured services

\* a service name ImportService has no adapter for
UnknownService(service) == service \notin {"pubsub", "cloudsql", "storage"}

\* C27: when a configured service is none of the supported kinds, Client.Import
\* never invokes the provisioning tool, creates no adapter, calls Next on no
\* iterator, and does not return success.
C27_UnknownServiceRejected ==
    (\E i \in 1..Len(services) : UnknownService(services[i])) =>
        /\ calls.init = 0
        /\ calls.adapters = 0
        /\ calls.next = 0
        /\ pc = "returned" => importErr # NoErr

\* ------------------------------------------ the paged listing as a whole

\* the places, in listing order, of the importable instances of a page
ImportablePlaces(items) ==
    SelectSeq([k \in 1..Len(items) |-> k],
              LAMBDA k : isImportablePaged(items[k].inst))

\* the call that fetched a page yields, or leaves queued, one resource for
\* each importable instance of the page, in listing order
PageQueuedInOrder ==
    LET places == ImportablePlaces(answer.items)
    IN  /\ Len(Produced) = Len(places)
        /\ \A j \in 1..Len(places) : Produced[j].Name[2] = places[j]

\* the resources the paged iterator hands out of a fetched page are those of
\* its importable instances, in listing order, when no upstream call fails
C28_PageDrainedInOrder ==
    (kind = "paged" /\ lastOp = "Next" /\ ~isClosed /\ err = NoErr
     /\ upCalls > 0) => PageQueuedInOrder

\* C28: in the paged iterator, when no upstream call fails, the call that
\* fetches a page queues one resource for each importable instance of the
\* page, in listing order, and Next returns the exhausted signal only when
\* the queue is drained and no further page remains.
C28_EveryPageYielded ==
    (kind = "paged" /\ lastOp = "Next" /\ ~isClosed /\ err = NoErr) =>
        /\ upCalls > 0 => PageQueuedInOrder
        /\ ret = Exhausted => (Len(resourceQueue) = 0 /\ finished)

\* ------------------------------------------------------------ the dry run

\* C29: when Options.DryRun is true, Service.Run never calls SaveImportBlock,
\* leaves no import block on disk and never sets DRIFT_DETECTED, whatever
\* drift it detects.
C29_DryRunWritesNothing ==
    options.DryRun =>
        /\ syncCalls.saves = 0
        /\ importBlocks = NoFiles
        /\ env = {}

\* a dry run that detected drift in live resources has returned
C29_Witness ==
    /\ options.DryRun
    /\ syncPc = "returned"
    /\ result.DriftDetected
    /\ Len(live) > 0

\* ------------------------------------- ImportService and its iterator

\* ImportService holds an iterator: from s.Import to its return
HoldsIterator == pc \in {"loop", "closing"}

\* C30: ImportService calls Next only on an iterator it has not closed and
\* whose last Next returned a resource, so no Next returns the closed-iterator
\* error; it leaves its loop only towards the deferred Close; and when it
\* returns it has called Close on the iterator exactly once.
C30_ProtocolRespected ==
    /\ [](HoldsIterator => (closeCalls = 0 /\ ~isClosed))
    /\ [](ret.err # ErrClosed)
    /\ [][calls'.next = calls.next + 1
          => (/\ lastOp' = "Next"
              /\ ~isClosed
              /\ lastOp = "Next" => (Len(ret.res) = 1 /\ ret.err = NoErr))]_vars
    /\ [][(pc = "loop" /\ pc' # "loop") => pc' = "closing"]_vars
    /\ [][(HoldsIterator /\ ~HoldsIterator')
          => (lastOp' = "Close" /\ isClosed' /\ closeCalls' = 1)]_vars

\* ImportService has returned, its iterator closed, from a failed cleanup
C30_Witness ==
    /\ ~HoldsIterator
    /\ lastOp = "Close"
    /\ closeCalls = 1
    /\ step.cleanup = "fail"
    /\ calls.next > 1

====
